---------------------------- MODULE Spec2Model ----------------------------
(***************************************************************************)
(* A model of grit's build engine (cmd/build.go): the dependency resolver  *)
(* (resolveDependencies), the stage scheduler (groupPackagesByLevel), the  *)
(* dirty pre-filter, the per-package executor (executeBuild) and the run   *)
(* coordinator (buildCmd.Run).                                             *)
(*                                                                         *)
(* Go maps are iterated in an unspecified order: every loop of the source  *)
(* that ranges over a map is a choice over all orders.                     *)
(***************************************************************************)
EXTENDS Integers, Sequences, FiniteSets, TLC

(***************************************************************************)
(* Bounds of the model.                                                    *)
(***************************************************************************)
\* the number of declared dependencies in a generated catalog
MaxEdges == 3

\* the number of runs of the build command in a behaviour
MaxRuns == 2

\* the number of changes to package files in a behaviour
MaxEdits == 1

(***************************************************************************)
(* Sequences and maps.                                                     *)
(***************************************************************************)
Range(s) == {s[i] : i \in DOMAIN s}

\* the orders in which a range over a Go map (or an unstable sort) can visit S
Perms(S) ==
  {f \in [1..Cardinality(S) -> S] : \A i, j \in DOMAIN f : f[i] = f[j] => i = j}

\* the order is returned as Kahn's loop left it
ReverseOmitted(s) == s

\* the for loop of build.go:312-315
Reverse(s) == [i \in 1..Len(s) |-> s[Len(s) + 1 - i]]

SeqsUpTo(S, n) == UNION {[1..k -> S] : k \in 0..n}

RECURSIVE Concat(_)
Concat(ss) == IF ss = <<>> THEN <<>> ELSE Head(ss) \o Concat(Tail(ss))

Count(s, x) == Cardinality({i \in DOMAIN s : s[i] = x})

\* a Go map read: the zero value for an absent key
Get(m, k, zero) == IF k \in DOMAIN m THEN m[k] ELSE zero

Put(m, k, v) == [x \in DOMAIN m \cup {k} |-> IF x = k THEN v ELSE m[x]]

EmptyMap == [x \in {} |-> 0]

(***************************************************************************)
(* grit.Package and grit.Config (pkg/grit/package.go): a package record    *)
(* has a name, its declared dependencies, its own "build" target ("" when  *)
(* it has none) and the directory it lies in.  The record with the empty   *)
(* name is the workspace root's grit.yaml, which LoadPackages loads like   *)
(* any other.                                                              *)
(***************************************************************************)
Config(name, deps, build, dir) ==
  [Name |-> name, Dependencies |-> deps, Build |-> build, Dir |-> dir]

RootName == ""

LibDir == "packages/lib"

AppDir == "packages/app"

RootRecord == Config(RootName, <<>>, "", ".")

\* the names a dependency list of a generated catalog can hold: "x" names no
\* package of any catalog
DepNames == {"a", "b", "c", "x"}

\* the names of the records of a generated catalog, in LoadPackages' order:
\* the workspace root and three packages, the last of which may reuse a name
NameLists == {<<RootName, "a", "b", "c">>, <<RootName, "a", "b", "a">>}

Edge == [from : 2..4, to : DepNames]

RECURSIVE DepsOf(_, _)
DepsOf(i, edges) ==
  IF edges = <<>> THEN <<>>
  ELSE (IF Head(edges).from = i THEN <<Head(edges).to>> ELSE <<>>)
         \o DepsOf(i, Tail(edges))

CatalogOf(names, edges) ==
  [i \in 1..Len(names) |->
     IF names[i] = RootName THEN RootRecord
     ELSE Config(names[i], DepsOf(i, edges), "make", LibDir)]

GraphCatalogs ==
  {CatalogOf(names, edges) : names \in NameLists, edges \in SeqsUpTo(Edge, MaxEdges)}

VARIABLES
  catalog,     \* what LoadPackages returns: the records of the workspace
  packages,    \* buildCmd.Run's packages: the catalog, or its dirty part
  pc,          \* the position of buildCmd.Run
  warnings,    \* the warnings given to formatter.Warning so far
  graph,       \* resolveDependencies: package name -> its existing dependencies
  nodeMap,     \* resolveDependencies: package name -> record
  inDegree,    \* resolveDependencies: package name -> number of edges to it
  queue,       \* resolveDependencies: Kahn's work queue
  order,       \* resolveDependencies: the dependents-first order
  buildOrder,  \* the order resolveDependencies returned
  dependsOn,   \* groupPackagesByLevel: name -> set of declared dependencies
  dependedOnBy,\* groupPackagesByLevel: name -> set of packages declaring it
  remaining,   \* groupPackagesByLevel: the names not yet in a level
  levels,      \* groupPackagesByLevel: the levels so far
  forced,      \* the levels that groupPackagesByLevel filled by breaking a cycle
  noCache,     \* the --no-cache flag of the run
  dirtyFlag,   \* the --dirty flag of the run
  runs,        \* the number of runs of the build command started so far
  loaded,      \* whether LoadPackages returned the catalog without an error
  files,       \* package name -> the state of the files of its directory
  cache,       \* the cache directory: package name -> the content of <name>.hash
  edits,       \* the number of changes made to package files so far
  clean,       \* package name -> the hash its last successful cached build
               \* stored, while its files are as that build fingerprinted them
  outdated,    \* the packages whose cache entry was stored by a build whose
               \* own command had changed their files after the fingerprint
  level,       \* buildCmd.Run: the index of the stage in progress
  next,        \* buildCmd.Run: the index in the stage of the next package to launch
  wg,          \* the stage's sync.WaitGroup counter
  resultChan,  \* the stage's result channel
  levelFailures,
  totalPackages,
  successCount,
  failedPackages,
  exitCode,    \* the exit status of the run: 0, or 1 after os.Exit(1)
  task,        \* package name -> the goroutine launched for it in this run
  rootFile,    \* the grit.yaml of the root: whether it is there and parses,
               \* and the Types it holds
  config,      \* the Types of the *RootConfig a caller of config.go holds
  dirs,        \* the directories made by the scaffolding commands
  pkgFiles,    \* path of a package directory -> the grit.yaml written in it
  cli,         \* the last scaffolding command or config.go call and its error
  tree,        \* the files below the directory of one package
  hashed       \* the last call of calculatePackageHash on that directory: the
               \* files it walked over and the digest it returned

resolverVars == <<graph, nodeMap, inDegree, queue, order>>
groupVars == <<dependsOn, dependedOnBy, remaining, levels, forced>>
optVars == <<noCache, dirtyFlag, runs, loaded>>
wsVars == <<files, cache, edits, clean, outdated>>
coordVars == <<level, next, wg, resultChan, levelFailures, totalPackages,
               successCount, failedPackages, exitCode>>
runVars == <<optVars, wsVars, coordVars, task>>
scaffoldVars == <<rootFile, config, dirs, pkgFiles, cli>>
\* what the build command never writes
hashVars == <<tree, hashed>>
readOnly == <<catalog, scaffoldVars, hashVars>>
vars == <<readOnly, packages, pc, warnings, resolverVars, buildOrder, groupVars,
          runVars>>

Names(cfgs) == {cfgs[i].Name : i \in DOMAIN cfgs}

MissingWarning(name, dep) == [kind |-> "missing", pkg |-> name, dep |-> dep]
CycleWarning == [kind |-> "cycle"]
BreakWarning == [kind |-> "break"]

(***************************************************************************)
(* resolveDependencies, build.go:240-318.                                  *)
(***************************************************************************)
\* build.go:246-252: a later record of the same name replaces an earlier one
NodeMapOf(cfgs) ==
  [n \in Names(cfgs) |->
     cfgs[CHOOSE i \in DOMAIN cfgs :
            cfgs[i].Name = n /\ \A j \in DOMAIN cfgs : cfgs[j].Name = n => j <= i]]

\* build.go:254-268: the declared dependencies that name a node, in order
ExistingDeps(cfg, nodes) ==
  SelectSeq(cfg.Dependencies, LAMBDA d : d \in nodes)

GraphOf(cfgs) ==
  [n \in Names(cfgs) |->
     Concat([i \in DOMAIN cfgs |->
               IF cfgs[i].Name = n THEN ExistingDeps(cfgs[i], Names(cfgs)) ELSE <<>>])]

\* build.go:266: one increment for every edge that ends in the node
InDegreeOf(g) ==
  [n \in DOMAIN g |->
     Cardinality({e \in UNION {{<<m, k>> : k \in DOMAIN g[m]} : m \in DOMAIN g} :
                    g[e[1]][e[2]] = n})]

\* build.go:258-263: one warning for every declared dependency that names no node
MissingWarningsOf(cfgs) ==
  UNION {{MissingWarning(cfgs[i].Name, cfgs[i].Dependencies[k]) :
            k \in {k \in DOMAIN cfgs[i].Dependencies :
                     cfgs[i].Dependencies[k] \notin Names(cfgs)}} :
         i \in DOMAIN cfgs}

\* build.go:242-268
ResolveBuildGraph ==
  /\ pc = "resolve"
  /\ nodeMap' = NodeMapOf(packages)
  /\ graph' = GraphOf(packages)
  /\ inDegree' = InDegreeOf(GraphOf(packages))
  /\ warnings' = warnings \cup MissingWarningsOf(packages)
  /\ pc' = "queue"
  /\ UNCHANGED <<readOnly, packages, queue, order, buildOrder, groupVars, runVars>>

\* build.go:271-276: the nodes no edge ends in, in the map's order
ZeroInDegree(g, deg) == {n \in DOMAIN g : deg[n] = 0}

ResolveInitQueue ==
  /\ pc = "queue"
  /\ \E q \in Perms(ZeroInDegree(graph, inDegree)) : queue' = q
  /\ pc' = "kahn"
  /\ UNCHANGED <<readOnly, packages, warnings, graph, nodeMap, inDegree, order,
                 buildOrder, groupVars, runVars>>

\* build.go:284-289: the inner loop over the neighbours of the node taken
\* from the queue; st is <<inDegree, queue>>
RECURSIVE Relax(_, _)
Relax(neighbors, st) ==
  IF neighbors = <<>> THEN st
  ELSE LET n == Head(neighbors)
           deg == [st[1] EXCEPT ![n] = @ - 1]
       IN Relax(Tail(neighbors),
                <<deg, IF deg[n] = 0 THEN Append(st[2], n) ELSE st[2]>>)

\* build.go:279-290: one iteration of Kahn's loop
ResolvePop ==
  /\ pc = "kahn"
  /\ queue # <<>>
  /\ LET node == Head(queue)
         st == Relax(graph[node], <<inDegree, Tail(queue)>>)
     IN /\ order' = Append(order, nodeMap[node])
        /\ inDegree' = st[1]
        /\ queue' = st[2]
  /\ UNCHANGED <<readOnly, packages, pc, warnings, graph, nodeMap, buildOrder,
                 groupVars, runVars>>

\* the found flag is not consulted: every node is appended
UnorderedUnchecked(nm, ord) == DOMAIN nm

\* build.go:297-308: the nodes not yet in the order
Unordered(nm, ord) == {n \in DOMAIN nm : \A i \in DOMAIN ord : ord[i].Name # n}

\* the lengths are not compared
CycleDetectedNever(ord, cfgs) == FALSE

\* build.go:292-293: the order is not as long as the input
CycleDetected(ord, cfgs) == Len(ord) # Len(cfgs)

\* build.go:292-317: the queue is empty; the rest of the nodes, if the order
\* is shorter than the input, in the map's order; then the reversal
ResolveFinish ==
  /\ pc = "kahn"
  /\ queue = <<>>
  /\ IF CycleDetected(order, packages)
     THEN /\ warnings' = warnings \cup {CycleWarning}
          /\ \E rest \in Perms(Unordered(nodeMap, order)) :
               buildOrder' = Reverse(order \o [i \in DOMAIN rest |-> nodeMap[rest[i]]])
     ELSE /\ warnings' = warnings
          /\ buildOrder' = Reverse(order)
  /\ graph' = EmptyMap
  /\ nodeMap' = EmptyMap
  /\ inDegree' = EmptyMap
  /\ order' = <<>>
  /\ pc' = "resolved"
  /\ UNCHANGED <<readOnly, packages, queue, groupVars, runVars>>

(***************************************************************************)
(* groupPackagesByLevel, build.go:519-599.                                 *)
(***************************************************************************)
\* build.go:521-531
DependsOnOf(cfgs) ==
  [n \in Names(cfgs) \ {RootName} |->
     Range(NodeMapOf(cfgs)[n].Dependencies)]

\* build.go:534-542
DependedOnByOf(deps) ==
  [d \in UNION {deps[n] : n \in DOMAIN deps} |-> {n \in DOMAIN deps : d \in deps[n]}]

\* build.go:546-553
RemainingOf(cfgs) ==
  [n \in Names(cfgs) \ {RootName} |-> NodeMapOf(cfgs)[n]]

\* build.go:519-553
GroupInit ==
  /\ pc = "resolved"
  /\ dependsOn' = DependsOnOf(buildOrder)
  /\ dependedOnBy' = DependedOnByOf(DependsOnOf(buildOrder))
  /\ remaining' = RemainingOf(buildOrder)
  /\ levels' = <<>>
  /\ forced' = {}
  /\ pc' = "group"
  /\ UNCHANGED <<readOnly, packages, warnings, resolverVars, buildOrder, runVars>>

\* a package waits for every dependency it declares to be in a level
CanBuildAllScheduled(deps, rem) ==
  {n \in DOMAIN rem : deps[n] \subseteq (DOMAIN deps \ DOMAIN rem)}

\* the range over remaining stops at the first package that can be built
CanBuildFirstOnly(deps, rem) ==
  LET ready == {n \in DOMAIN rem : deps[n] \cap DOMAIN rem = {}}
  IN IF ready = {} THEN {} ELSE {CHOOSE n \in ready : TRUE}

\* canBuild is never cleared: every remaining package is taken
CanBuildUnchecked(deps, rem) == DOMAIN rem

\* build.go:560-572: the packages none of whose dependencies remains
CanBuild(deps, rem) == {n \in DOMAIN rem : deps[n] \cap DOMAIN rem = {}}

\* the level is left in the order of the range over remaining
SortedByDependentsSkipped(lvl, by) == TRUE

\* build.go:584-588: sort.Slice leaves the level in non-increasing order of
\* the number of dependents; it is not stable
SortedByDependents(lvl, by) ==
  \A i, j \in DOMAIN lvl :
    i < j => Cardinality(Get(by, lvl[i].Name, {}))
               >= Cardinality(Get(by, lvl[j].Name, {}))

\* the cycle is not broken: the level stays empty
ForcedChoicesNone(rem) == {{}}

\* every remaining package is forced into the level
ForcedChoicesAll(rem) == {DOMAIN rem}

\* build.go:575-581: the first package of a range over remaining
ForcedChoices(rem) == {{n} : n \in DOMAIN rem}

\* one package of a level of several stays among the remaining ones
RemoveLevelButOne(rem, chosen) ==
  LET gone == IF Cardinality(chosen) > 1
              THEN chosen \ {CHOOSE c \in chosen : TRUE}
              ELSE chosen
  IN [n \in DOMAIN rem \ gone |-> rem[n]]

\* build.go:591-593: the packages of the level are deleted from remaining
RemoveLevel(rem, chosen) == [n \in DOMAIN rem \ chosen |-> rem[n]]

\* build.go:556-596: one round of the loop
GroupRound ==
  /\ pc = "group"
  /\ DOMAIN remaining # {}
  /\ LET ready == CanBuild(dependsOn, remaining)
     IN \E chosen \in (IF ready # {} THEN {ready} ELSE ForcedChoices(remaining)) :
          \E visit \in Perms(chosen) :
            LET currentLevel == [i \in DOMAIN visit |-> remaining[visit[i]]]
            IN /\ SortedByDependents(currentLevel, dependedOnBy)
               /\ levels' = Append(levels, currentLevel)
               /\ remaining' = RemoveLevel(remaining, chosen)
               /\ forced' = IF ready = {} THEN forced \cup {Len(levels) + 1}
                             ELSE forced
               /\ warnings' = IF ready = {} THEN warnings \cup {BreakWarning}
                               ELSE warnings
  /\ UNCHANGED <<readOnly, packages, pc, resolverVars, buildOrder, dependsOn,
                 dependedOnBy, runVars>>

\* build.go:556, 598: nothing remains; the levels are returned
GroupReturn ==
  /\ pc = "group"
  /\ DOMAIN remaining = {}
  /\ dependsOn' = EmptyMap
  /\ dependedOnBy' = EmptyMap
  /\ pc' = "grouped"
  /\ UNCHANGED <<readOnly, packages, warnings, resolverVars, buildOrder, remaining,
                 levels, forced, runVars>>

(***************************************************************************)
(* The workspace: the root grit.yaml's types, the package files and the    *)
(* cache directory.                                                        *)
(***************************************************************************)
\* the types of the root grit.yaml: "lib" has a build target, "app" has none
RootTypes ==
  [lib |-> [PackageDir |-> LibDir, Build |-> "make lib"],
   app |-> [PackageDir |-> AppDir, Build |-> ""]]

\* build.go:448-493: the digest of the state of the files of the package
calculatePackageHash(name) == files[name]

\* a change to a non-hidden file of the package: another (path, size, mtime) list
Modified(fileState) == fileState + 1

(***************************************************************************)
(* buildCmd.Run up to the resolver, build.go:28-120.                       *)
(***************************************************************************)
\* build.go:62-67: dependency name -> the packages declaring it, in order
ReverseDepsOf(cfgs) ==
  [d \in UNION {Range(cfgs[i].Dependencies) : i \in DOMAIN cfgs} |->
     Concat([i \in DOMAIN cfgs |->
               [k \in 1..Count(cfgs[i].Dependencies, d) |-> cfgs[i].Name]])]

\* a package whose cache entry cannot be read is taken for clean
IsDirectlyDirtyIfRead(name) ==
  name \in DOMAIN cache /\ cache[name] # calculatePackageHash(name)

\* build.go:87-91: no readable cache entry, or one that differs from the hash
IsDirectlyDirty(name) ==
  name \notin DOMAIN cache \/ cache[name] # calculatePackageHash(name)

\* build.go:70-92
DirectlyDirtyOf(cfgs) ==
  {n \in Names(cfgs) \ {RootName} : IsDirectlyDirty(n)}

\* the dependers are marked, their own dependers are not visited
propagateDirtinessShallow(pkgName, reverseDeps, allDirty) ==
  allDirty \cup Range(Get(reverseDeps, pkgName, <<>>))

\* build.go:507-516
RECURSIVE propagateDirtiness(_, _, _)
RECURSIVE PropagateEach(_, _, _)
propagateDirtiness(pkgName, reverseDeps, allDirty) ==
  PropagateEach(Get(reverseDeps, pkgName, <<>>), reverseDeps, allDirty)
PropagateEach(dependers, reverseDeps, allDirty) ==
  IF dependers = <<>> THEN allDirty
  ELSE LET depender == Head(dependers)
       IN IF depender \in allDirty
          THEN PropagateEach(Tail(dependers), reverseDeps, allDirty)
          ELSE PropagateEach(Tail(dependers), reverseDeps,
                 propagateDirtiness(depender, reverseDeps, allDirty \cup {depender}))

\* build.go:95-99
RECURSIVE AllDirtyOf(_, _, _)
AllDirtyOf(directlyDirty, reverseDeps, allDirty) ==
  IF directlyDirty = {} THEN allDirty
  ELSE LET pkgName == CHOOSE n \in directlyDirty : TRUE
       IN AllDirtyOf(directlyDirty \ {pkgName}, reverseDeps,
            propagateDirtiness(pkgName, reverseDeps, allDirty \cup {pkgName}))

\* build.go:102-106
DirtyPackagesOf(cfgs) ==
  LET allDirty == AllDirtyOf(DirectlyDirtyOf(cfgs), ReverseDepsOf(cfgs), {})
  IN SelectSeq(cfgs, LAMBDA cfg : cfg.Name \in allDirty)

\* dirty.go:42-81: the records that the dirty command lists; it writes
\* nothing but the cache directory itself
dirtyCmd(cfgs) ==
  SelectSeq(cfgs, LAMBDA cfg : cfg.Name # RootName /\ IsDirectlyDirty(cfg.Name))

\* build.go:28-57: a run of the build command starts, with its flags
StartRun ==
  /\ pc \in {"idle", "done"}
  /\ runs < MaxRuns
  /\ runs' = runs + 1
  /\ \E nc \in BOOLEAN, df \in BOOLEAN : noCache' = nc /\ dirtyFlag' = df
  /\ loaded' = TRUE
  /\ packages' = catalog
  /\ pc' = IF dirtyFlag' THEN "filter" ELSE "resolve"
  /\ warnings' = {}
  /\ buildOrder' = <<>>
  /\ levels' = <<>>
  /\ forced' = {}
  /\ level' = 0
  /\ next' = 0
  /\ wg' = 0
  /\ resultChan' = <<>>
  /\ levelFailures' = 0
  /\ totalPackages' = 0
  /\ successCount' = 0
  /\ failedPackages' = <<>>
  /\ exitCode' = 0
  /\ task' = EmptyMap
  /\ UNCHANGED <<readOnly, resolverVars, dependsOn, dependedOnBy, remaining, wsVars>>

\* build.go:28-45: a grit.yaml of the workspace cannot be read or parsed:
\* LoadPackages returns an error and the run ends with os.Exit(1)
LoadFails ==
  /\ pc \in {"idle", "done"}
  /\ runs < MaxRuns
  /\ runs' = runs + 1
  /\ \E nc \in BOOLEAN, df \in BOOLEAN : noCache' = nc /\ dirtyFlag' = df
  /\ loaded' = FALSE
  /\ packages' = <<>>
  /\ pc' = "done"
  /\ warnings' = {}
  /\ buildOrder' = <<>>
  /\ levels' = <<>>
  /\ forced' = {}
  /\ level' = 0
  /\ next' = 0
  /\ wg' = 0
  /\ resultChan' = <<>>
  /\ levelFailures' = 0
  /\ totalPackages' = 0
  /\ successCount' = 0
  /\ failedPackages' = <<>>
  /\ exitCode' = 1
  /\ task' = EmptyMap
  /\ UNCHANGED <<readOnly, resolverVars, dependsOn, dependedOnBy, remaining, wsVars>>

\* build.go:57-120: the dirty pre-filter
DirtyFilter ==
  /\ pc = "filter"
  /\ packages' = DirtyPackagesOf(packages)
  /\ pc' = IF packages' = <<>> THEN "done" ELSE "resolve"
  /\ UNCHANGED <<readOnly, warnings, resolverVars, buildOrder, groupVars, runVars>>

(***************************************************************************)
(* executeBuild, build.go:320-445, run by the goroutine of build.go:170.   *)
(***************************************************************************)
TaskOf(lvl) ==
  [pc |-> "check", level |-> lvl, newHash |-> 0, cmd |-> "", hit |-> FALSE,
   ran |-> FALSE, outcome |-> "", err |-> ""]

Launched == DOMAIN task

\* build.go:329-353: the hash the cache check compares and a build stores
NewHashOf(name) ==
  IF dirtyFlag /\ ~noCache /\ name \in DOMAIN cache
  THEN cache[name]
  ELSE calculatePackageHash(name)

\* the packages of a dirty-only run are never hits
IsCacheHitPlainOnly(name, newHash) ==
  ~dirtyFlag /\ ~noCache /\ name \in DOMAIN cache /\ cache[name] = newHash

\* a hit also needs every dependency launched in the run to be a hit
IsCacheHitIfDepsHit(name, newHash) ==
  /\ ~noCache /\ name \in DOMAIN cache /\ cache[name] = newHash
  /\ \A i \in DOMAIN packages :
       packages[i].Name = name =>
         \A d \in Range(packages[i].Dependencies) \cap DOMAIN task : task[d].hit

\* build.go:357-362
IsCacheHit(name, newHash) ==
  ~noCache /\ name \in DOMAIN cache /\ cache[name] = newHash

InvalidatedWarning(name) == [kind |-> "invalidated", pkg |-> name]

\* build.go:320-365: the hash and the cache check
TaskCheckCache ==
  \E n \in Launched :
    /\ task[n].pc = "check"
    /\ LET newHash == NewHashOf(n)
       IN IF IsCacheHit(n, newHash)
          THEN /\ task' = [task EXCEPT ![n].newHash = newHash, ![n].hit = TRUE,
                                       ![n].pc = "send"]
               /\ warnings' = warnings
          ELSE /\ task' = [task EXCEPT ![n].newHash = newHash, ![n].pc = "resolve"]
               /\ warnings' = IF ~noCache /\ n \in DOMAIN cache
                              THEN warnings \cup {InvalidatedWarning(n)}
                              ELSE warnings
    /\ UNCHANGED <<readOnly, packages, pc, resolverVars, buildOrder, groupVars,
                   optVars, wsVars, coordVars>>

\* build.go:385-390: the types whose package_dir the package directory contains
MatchingTypes(cfg) ==
  {t \in DOMAIN RootTypes : RootTypes[t].PackageDir = cfg.Dir}

\* the target of the type comes first, the package's own is the fallback
EffectiveCommandTypeFirst(cfg, cfgType) ==
  IF RootTypes[cfgType].Build # "" THEN RootTypes[cfgType].Build ELSE cfg.Build

\* a package with no build target of its own is built with "make"
EffectiveCommandDefaulted(cfg, cfgType) ==
  IF cfg.Build # "" THEN cfg.Build ELSE "make"

\* build.go:407-416: the package's own build target, else that of its type
EffectiveCommand(cfg, cfgType) ==
  IF cfg.Build # "" THEN cfg.Build ELSE RootTypes[cfgType].Build

ErrNoType == "could not determine package type"
ErrNoCommand == "no build command defined"
ErrTimeout == "build command timed out after 2 minutes"
ErrFailed == "build command failed"

\* the record the goroutine was given: that of the stage
ConfigOf(n) ==
  LET lp == levels[task[n].level]
  IN lp[CHOOSE i \in DOMAIN lp : lp[i].Name = n]

\* build.go:369-416: the type of the package and its build command
TaskResolveCommand ==
  \E n \in Launched :
    /\ task[n].pc = "resolve"
    /\ LET cfg == ConfigOf(n)
       IN IF MatchingTypes(cfg) = {}
          THEN task' = [task EXCEPT ![n].err = ErrNoType, ![n].pc = "send"]
          ELSE \E cfgType \in MatchingTypes(cfg) :
                 IF EffectiveCommand(cfg, cfgType) = ""
                 THEN task' = [task EXCEPT ![n].err = ErrNoCommand, ![n].pc = "send"]
                 ELSE task' = [task EXCEPT ![n].cmd = EffectiveCommand(cfg, cfgType),
                                           ![n].pc = "exec"]
    /\ UNCHANGED <<readOnly, packages, pc, warnings, resolverVars, buildOrder,
                   groupVars, optVars, wsVars, coordVars>>

\* what a build command can do: exit with 0 ("ok"); exit with another status
\* before the deadline, cmd.Run returning before it ("exit") or, the exit
\* being that close to it, the deadline passing before executeBuild reads
\* ctx.Err() ("exitLate"); or run until it is killed at the deadline
\* ("timeout")
Outcomes == {"ok", "exit", "exitLate", "timeout"}

\* build.go:430: cmd.Run returns an error
RunError(outcome) == outcome # "ok"

\* build.go:431: ctx.Err() is read after cmd.Run has returned
DeadlineExceeded(outcome) == outcome \in {"exitLate", "timeout"}

\* build.go:430-435: the error of the command's outcome
CommandError(outcome) ==
  IF ~RunError(outcome) THEN ""
  ELSE IF DeadlineExceeded(outcome) THEN ErrTimeout
  ELSE ErrFailed

\* the command's error is dropped: the hash is saved whatever the outcome
StepAfterUnchecked(outcome) == "save"

\* build.go:430-437: after a failed command executeBuild returns its error
StepAfter(outcome) == IF outcome = "ok" THEN "save" ELSE "send"

\* the stage shares one context: a failing command cancels those of the
\* stage that are still running
AfterCommandCancelling(n, outcome) ==
  [m \in DOMAIN task |->
     IF m = n
     THEN [task[n] EXCEPT !.ran = TRUE, !.outcome = outcome,
                          !.err = CommandError(outcome),
                          !.pc = StepAfter(outcome)]
     ELSE IF outcome # "ok" /\ task[m].level = task[n].level /\ task[m].pc = "exec"
          THEN [task[m] EXCEPT !.ran = TRUE, !.err = ErrFailed, !.pc = "send"]
          ELSE task[m]]

\* build.go:422-435: the context, its deadline and the command are the
\* goroutine's own: only its own outcome is set
AfterCommand(n, outcome) ==
  [task EXCEPT ![n].ran = TRUE, ![n].outcome = outcome,
               ![n].err = CommandError(outcome), ![n].pc = StepAfter(outcome)]

\* build.go:418-435: the build command runs in the package directory, under
\* its own deadline; it exits with 0 or not, or is killed at the deadline,
\* and may have changed files of the package
TaskRunCommand ==
  \E n \in Launched :
    /\ task[n].pc = "exec"
    /\ \E outcome \in Outcomes, changes \in BOOLEAN :
         /\ changes => edits < MaxEdits
         /\ files' = IF changes THEN [files EXCEPT ![n] = Modified(@)] ELSE files
         /\ edits' = IF changes THEN edits + 1 ELSE edits
         /\ clean' = IF changes THEN [m \in DOMAIN clean \ {n} |-> clean[m]] ELSE clean
         /\ task' = AfterCommand(n, outcome)
    /\ UNCHANGED <<readOnly, packages, pc, warnings, resolverVars, buildOrder,
                   groupVars, optVars, cache, outdated, coordVars>>

\* the hash is written whatever the --no-cache flag says
SaveHashAlways(name, newHash) == Put(cache, name, newHash)

\* the hash is not written
SaveHashSkipped(name, newHash) == cache

\* build.go:440-442: what a successful build leaves in the cache directory
SaveHash(name, newHash) ==
  IF ~noCache THEN Put(cache, name, newHash) ELSE cache

\* build.go:437-444
TaskSaveHash ==
  \E n \in Launched :
    /\ task[n].pc = "save"
    /\ cache' = SaveHash(n, task[n].newHash)
    /\ clean' = IF ~noCache /\ task[n].newHash = calculatePackageHash(n)
                THEN Put(clean, n, task[n].newHash)
                ELSE clean
    /\ outdated' = IF noCache THEN outdated
                   ELSE IF task[n].newHash = calculatePackageHash(n)
                        THEN outdated \ {n}
                        ELSE outdated \cup {n}
    /\ task' = [task EXCEPT ![n].pc = "send"]
    /\ UNCHANGED <<readOnly, packages, pc, warnings, resolverVars, buildOrder,
                   groupVars, optVars, files, edits, coordVars>>

\* every result is reported as a success
BuildResultAlwaysOk(n) ==
  [packageName |-> n, success |-> TRUE, err |-> task[n].err]

\* build.go:176-181
BuildResult(n) ==
  [packageName |-> n, success |-> task[n].err = "", err |-> task[n].err]

\* the channel holds one result
CapacityOne(levelPackages) == 1

\* build.go:161: make(chan buildResult, len(levelPackages))
Capacity(levelPackages) == Len(levelPackages)

\* build.go:171-181: the result is sent when the channel has room for it,
\* then the deferred wg.Done runs
TaskSend ==
  \E n \in Launched :
    /\ task[n].pc = "send"
    /\ Len(resultChan) < Capacity(levels[task[n].level])
    /\ resultChan' = Append(resultChan, BuildResult(n))
    /\ wg' = wg - 1
    /\ task' = [task EXCEPT ![n].pc = "done"]
    /\ UNCHANGED <<readOnly, packages, pc, warnings, resolverVars, buildOrder,
                   groupVars, optVars, wsVars, level, next, levelFailures,
                   totalPackages, successCount, failedPackages, exitCode>>

(***************************************************************************)
(* buildCmd.Run from the resolver's result on, build.go:130-231.           *)
(***************************************************************************)
\* build.go:496-504
getPackageNames(configs) ==
  LET named == SelectSeq(configs, LAMBDA cfg : cfg.Name # RootName)
  IN [i \in DOMAIN named |-> named[i].Name]

\* build.go:139-146, 228-230
BeginBuild ==
  /\ pc = "grouped"
  /\ totalPackages' = Len(getPackageNames(buildOrder))
  /\ successCount' = 0
  /\ failedPackages' = <<>>
  /\ level' = 1
  /\ pc' = IF totalPackages' > 0 THEN "stage" ELSE "done"
  /\ buildOrder' = <<>>
  /\ UNCHANGED <<readOnly, packages, warnings, resolverVars, groupVars, optVars,
                 wsVars, next, wg, resultChan, levelFailures, exitCode, task>>

\* build.go:148-161: the next stage begins with a new channel
StageStart ==
  /\ pc = "stage"
  /\ level <= Len(levels)
  /\ resultChan' = <<>>
  /\ wg' = 0
  /\ next' = 1
  /\ pc' = "launch"
  /\ UNCHANGED <<readOnly, packages, warnings, resolverVars, buildOrder, groupVars,
                 optVars, wsVars, level, levelFailures, totalPackages,
                 successCount, failedPackages, exitCode, task>>

\* build.go:164-183: a goroutine is launched for the next package of the stage
Launch ==
  /\ pc = "launch"
  /\ next <= Len(levels[level])
  /\ LET cfg == levels[level][next]
     IN IF cfg.Name = RootName
        THEN UNCHANGED <<wg, task>>
        ELSE /\ wg' = wg + 1
             /\ task' = Put(task, cfg.Name, TaskOf(level))
  /\ next' = next + 1
  /\ UNCHANGED <<readOnly, packages, pc, warnings, resolverVars, buildOrder,
                 groupVars, optVars, wsVars, level, resultChan, levelFailures,
                 totalPackages, successCount, failedPackages, exitCode>>

\* the coordinator does not wait
WaitOmitted(counter) == TRUE

\* build.go:186: wg.Wait returns when the counter is zero
WaitReturns(counter) == counter = 0

\* build.go:186-190: wg.Wait returns and the channel is closed
WaitAndClose ==
  /\ pc = "launch"
  /\ next > Len(levels[level])
  /\ WaitReturns(wg)
  /\ levelFailures' = 0
  /\ pc' = "collect"
  /\ UNCHANGED <<readOnly, packages, warnings, resolverVars, buildOrder, groupVars,
                 optVars, wsVars, level, next, wg, resultChan, totalPackages,
                 successCount, failedPackages, exitCode, task>>

\* build.go:191-201: one result is received from the closed channel
Collect ==
  /\ pc = "collect"
  /\ resultChan # <<>>
  /\ LET result == Head(resultChan)
     IN IF result.success
        THEN /\ successCount' = successCount + 1
             /\ UNCHANGED <<levelFailures, failedPackages>>
        ELSE /\ levelFailures' = levelFailures + 1
             /\ failedPackages' = Append(failedPackages, result.packageName)
             /\ UNCHANGED successCount
  /\ resultChan' = Tail(resultChan)
  /\ UNCHANGED <<readOnly, packages, pc, warnings, resolverVars, buildOrder,
                 groupVars, optVars, wsVars, level, next, wg, totalPackages,
                 exitCode, task>>

\* the loop goes on after a failure
StageFailedIgnored(failures) == FALSE

\* build.go:204-207
StageFailed(failures) == failures > 0

\* build.go:203-211: the stage is over; a failure in it ends the loop
StageEnd ==
  /\ pc = "collect"
  /\ resultChan = <<>>
  /\ IF StageFailed(levelFailures)
     THEN pc' = "summary" /\ level' = level
     ELSE pc' = "stage" /\ level' = level + 1
  /\ UNCHANGED <<readOnly, packages, warnings, resolverVars, buildOrder, groupVars,
                 optVars, wsVars, next, wg, resultChan, levelFailures,
                 totalPackages, successCount, failedPackages, exitCode, task>>

\* build.go:148, 212: no stage is left
StagesDone ==
  /\ pc = "stage"
  /\ level > Len(levels)
  /\ pc' = "summary"
  /\ UNCHANGED <<readOnly, packages, warnings, resolverVars, buildOrder, groupVars,
                 runVars>>

\* Formatter.Summary: the numbers of the "built successfully" and the
\* "packages failed" parts of the summary line
FormatterSummary(success, totalCount) ==
  IF success = totalCount
  THEN [succeeded |-> totalCount, failed |-> 0]
  ELSE [succeeded |-> success, failed |-> totalCount - success]

\* the run returns normally whatever has failed
ExitStatusZero(failed) == 0

\* build.go:220-227: os.Exit(1) when the failed list is not empty
ExitStatus(failed) == IF Len(failed) > 0 THEN 1 ELSE 0

\* build.go:214-227: the summary, and os.Exit(1) when a package failed
Summary ==
  /\ pc = "summary"
  /\ exitCode' = ExitStatus(failedPackages)
  /\ pc' = "done"
  /\ UNCHANGED <<readOnly, packages, warnings, resolverVars, buildOrder, groupVars,
                 optVars, wsVars, level, next, wg, resultChan, levelFailures,
                 totalPackages, successCount, failedPackages, task>>

\* between two runs a file of a package is changed
Edit ==
  /\ pc = "done"
  /\ runs < MaxRuns
  /\ edits < MaxEdits
  /\ \E n \in DOMAIN files :
       /\ files' = [files EXCEPT ![n] = Modified(@)]
       /\ clean' = [m \in DOMAIN clean \ {n} |-> clean[m]]
  /\ edits' = edits + 1
  /\ UNCHANGED <<readOnly, packages, pc, warnings, resolverVars, buildOrder,
                 groupVars, optVars, cache, outdated, coordVars, task>>

(***************************************************************************)
(* The root configuration (pkg/grit/config.go) and the scaffolding commands *)
(* `grit new type` and `grit new`.  A path is the sequence of its elements. *)
(***************************************************************************)
\* package.go:82-88 (CanDependOn is set by none of the operations below)
TypeConfig(packageDir, buildDir, coverageDir, targets) ==
  [PackageDir |-> packageDir, BuildDir |-> buildDir,
   CoverageDir |-> coverageDir, Targets |-> targets]

\* the zero value of TypeConfig, which a map gives for a missing key
ZeroTypeConfig == TypeConfig(<<>>, <<>>, <<>>, EmptyMap)

\* filepath.Join: empty elements are ignored
Join(dir, elem) == IF elem = "" THEN dir ELSE Append(dir, elem)

\* os.MkdirAll: the directory and the parents it lacks
MkdirAll(made, path) == made \cup {SubSeq(path, 1, k) : k \in 1..Len(path)}

RECURSIVE MkdirEach(_, _)
MkdirEach(made, paths) ==
  IF paths = <<>> THEN made
  ELSE MkdirEach(MkdirAll(made, Head(paths)), Tail(paths))

RootFile(kind, types) == [kind |-> kind, Types |-> types]

\* loadRootConfig and LoadConfig: a missing file is an empty configuration, a
\* file that does not parse is an error
loadRootConfig(file) ==
  [err |-> file.kind = "corrupt",
   Types |-> IF file.kind = "ok" THEN file.Types ELSE EmptyMap]

Cli(op, typeName, pkgName, err) ==
  [op |-> op, typeName |-> typeName, pkgName |-> pkgName, err |-> err]

\* the lib type is replaced whether it exists or not
MergeDefaultsOverwriting(types, defaults) ==
  Put(types, "lib",
      TypeConfig(<<"packages", "lib">>, <<"build", "lib">>,
                 <<"coverage", "lib">>, defaults.Targets))

MergeDefaults(types, defaults) ==
  IF "lib" \in DOMAIN types THEN types
  ELSE Put(types, "lib",
           TypeConfig(<<"packages", "lib">>, <<"build", "lib">>,
                      <<"coverage", "lib">>, defaults.Targets))

\* the type names and package names given to the commands
TypeNames == {"lib", "svc"}

PkgNames == {"core"}

\* the defaults a caller passes to MergeDefaults
DefaultsGiven ==
  {TypeConfig(<<"packages", "lib">>, <<>>, <<>>, targets) :
     targets \in {EmptyMap, [build |-> "make", test |-> "make test"]}}

LoadConfig ==
  /\ pc = "idle"
  /\ LET loadedCfg == loadRootConfig(rootFile)
     IN IF loadedCfg.err
        THEN /\ cli' = Cli("LoadConfig", "", "", "failed to parse config")
             /\ UNCHANGED config
        ELSE /\ cli' = Cli("LoadConfig", "", "", "")
             /\ config' = loadedCfg.Types
  /\ UNCHANGED <<rootFile, dirs, pkgFiles>>
  /\ UNCHANGED <<catalog, hashVars, packages, pc, warnings, resolverVars,
                 buildOrder, groupVars, runVars>>

CallMergeDefaults ==
  /\ pc = "idle"
  /\ \E defaults \in DefaultsGiven : config' = MergeDefaults(config, defaults)
  /\ cli' = Cli("MergeDefaults", "", "", "")
  /\ UNCHANGED <<rootFile, dirs, pkgFiles>>
  /\ UNCHANGED <<catalog, hashVars, packages, pc, warnings, resolverVars,
                 buildOrder, groupVars, runVars>>

\* the write can fail, and then the file is as it was
SaveConfig ==
  /\ pc = "idle"
  /\ \/ /\ rootFile' = RootFile("ok", config)
        /\ cli' = Cli("SaveConfig", "", "", "")
     \/ /\ cli' = Cli("SaveConfig", "", "", "write failed")
        /\ UNCHANGED rootFile
  /\ UNCHANGED <<config, dirs, pkgFiles>>
  /\ UNCHANGED <<catalog, hashVars, packages, pc, warnings, resolverVars,
                 buildOrder, groupVars, runVars>>

NewTypeConfig(typeName) ==
  TypeConfig(Join(<<"packages">>, typeName), Join(<<"build">>, typeName),
             Join(<<"coverage">>, typeName),
             [build |-> "echo 'Implement build logic'",
              test |-> "echo 'Implement test logic'"])

NewTypeDirs(typeName) ==
  <<Join(<<"packages">>, typeName), Join(<<".prompt">>, typeName),
    Join(<<".mod">>, typeName), Join(<<".dev">>, typeName),
    Join(<<".ops">>, typeName)>>

\* the numbers of file-system operations of a command of n operations that
\* succeed before one fails: none, the first only, all but the last, or all
\* (no failure)
Done(n) == {0, 1, n - 1, n}

\* `grit new type <typeName>`; `done` is the number of its file-system
\* operations (the write of grit.yaml, then each MkdirAll) that succeed
\* before one fails and log.Fatal ends the command
newTypeCmd ==
  /\ pc = "idle"
  /\ \E typeName \in TypeNames :
       LET loadedCfg == loadRootConfig(rootFile)
           mkdirs == NewTypeDirs(typeName)
       IN IF loadedCfg.err
          THEN /\ cli' = Cli("new type", typeName, "", "fatal")
               /\ UNCHANGED <<rootFile, dirs>>
          ELSE \E done \in Done(Len(mkdirs) + 1) :
                 /\ rootFile' =
                      IF done = 0 THEN rootFile
                      ELSE RootFile("ok", Put(loadedCfg.Types, typeName,
                                              NewTypeConfig(typeName)))
                 /\ dirs' = IF done = 0 THEN dirs
                            ELSE MkdirEach(dirs, SubSeq(mkdirs, 1, done - 1))
                 /\ cli' = Cli("new type", typeName, "",
                               IF done = Len(mkdirs) + 1 THEN "" ELSE "fatal")
  /\ UNCHANGED <<config, pkgFiles>>
  /\ UNCHANGED <<catalog, hashVars, packages, pc, warnings, resolverVars,
                 buildOrder, groupVars, runVars>>

\* the existence of the type is not tested
TypeExistsUnchecked(types, typeName) == TRUE

TypeExists(types, typeName) == typeName \in DOMAIN types

NewPackageDirs(pkgDir) ==
  <<pkgDir, Join(pkgDir, "src"), Join(pkgDir, ".prompt"), Join(pkgDir, ".mod"),
    Join(pkgDir, ".dev"), Join(pkgDir, ".ops")>>

\* the grit.yaml of a new package: its name, its version and a copy of the
\* targets of its type
NewPackageConfig(pkgName, typeConfig) ==
  [Name |-> pkgName, Version |-> "0.1.0", Targets |-> typeConfig.Targets]

ErrLoad == "failed to load config"

ErrNoSuchType == "type does not exist"

ErrMkdirPackage == "failed to create package directory"

ErrMkdir == "failed to create directory"

ErrWrite == "failed to write package config"

\* `grit new <typeName> <pkgName>`; `done` is the number of its file-system
\* operations (each MkdirAll, then the write of the package's grit.yaml)
\* that succeed before one fails and the command returns its error
newCmd ==
  /\ pc = "idle"
  /\ \E typeName \in TypeNames, pkgName \in PkgNames :
       LET loadedCfg == loadRootConfig(rootFile)
           typeConfig == Get(loadedCfg.Types, typeName, ZeroTypeConfig)
           pkgDir == Join(typeConfig.PackageDir, pkgName)
           mkdirs == NewPackageDirs(pkgDir)
       IN IF loadedCfg.err
          THEN /\ cli' = Cli("new", typeName, pkgName, ErrLoad)
               /\ UNCHANGED <<dirs, pkgFiles>>
          ELSE IF ~TypeExists(loadedCfg.Types, typeName)
          THEN /\ cli' = Cli("new", typeName, pkgName, ErrNoSuchType)
               /\ UNCHANGED <<dirs, pkgFiles>>
          ELSE \E done \in Done(Len(mkdirs) + 1) :
                 /\ dirs' = MkdirEach(dirs, SubSeq(mkdirs, 1,
                                IF done > Len(mkdirs) THEN Len(mkdirs) ELSE done))
                 /\ pkgFiles' =
                      IF done = Len(mkdirs) + 1
                      THEN Put(pkgFiles, pkgDir,
                               NewPackageConfig(pkgName, typeConfig))
                      ELSE pkgFiles
                 /\ cli' = Cli("new", typeName, pkgName,
                               IF done = 0 THEN ErrMkdirPackage
                               ELSE IF done < Len(mkdirs) THEN ErrMkdir
                               ELSE IF done = Len(mkdirs) THEN ErrWrite
                               ELSE "")
  /\ UNCHANGED <<rootFile, config>>
  /\ UNCHANGED <<catalog, hashVars, packages, pc, warnings, resolverVars,
                 buildOrder, groupVars, runVars>>

\* a workspace in which no scaffolding command has run
Unscaffolded ==
  /\ config = EmptyMap
  /\ dirs = {}
  /\ pkgFiles = EmptyMap
  /\ cli = Cli("", "", "", "")

(***************************************************************************)
(* calculatePackageHash (build.go:448-493) on the files of one package     *)
(* directory.  A string is the sequence of its characters.                 *)
(***************************************************************************)
\* a regular file: the directory below the package directory that holds it
\* (<<>> for the package directory itself), its name, size and mtime
File(dir, name, size, mtime) ==
  [dir |-> dir, name |-> name, size |-> size, mtime |-> mtime]

\* the files a package directory can hold: a, with either of two
\* modification times, b, a file whose name holds ':' and '|', a hidden
\* file and a file in a hidden directory
FileUniverse ==
  {File(<<>>, <<"a">>, 1, 1), File(<<>>, <<"a">>, 1, 2),
   File(<<>>, <<"b">>, 1, 1),
   File(<<>>, <<"a", ":", "1", ":", "1", "|", "b">>, 1, 1),
   File(<<>>, <<".", "h">>, 1, 1),
   File(<<".", "g">>, <<"a">>, 1, 1)}

\* filepath.Rel(pkgDir, path)
RelPath(f) == IF f.dir = <<>> THEN f.name ELSE f.dir \o <<"/">> \o f.name

\* a directory holds one file of a path
Trees ==
  {t \in SUBSET FileUniverse :
     \A f, g \in t : RelPath(f) = RelPath(g) => f = g}

\* the byte of a character, for the order of sort.Strings
Byte ==
  [c \in {".", "/", "0", "1", "2", "3", "4", "5", "6", "7", "8", "9", ":",
          "a", "b", "g", "h", "|"} |->
     CASE c = "." -> 46 [] c = "/" -> 47 [] c = "0" -> 48 [] c = "1" -> 49
       [] c = "2" -> 50 [] c = "3" -> 51 [] c = "4" -> 52 [] c = "5" -> 53
       [] c = "6" -> 54 [] c = "7" -> 55 [] c = "8" -> 56 [] c = "9" -> 57
       [] c = ":" -> 58 [] c = "a" -> 97 [] c = "b" -> 98 [] c = "g" -> 103
       [] c = "h" -> 104 [] c = "|" -> 124]

DigitChar == <<"0", "1", "2", "3", "4", "5", "6", "7", "8", "9">>

\* the verb %d of fmt.Sprintf, for a number that is not negative
RECURSIVE Decimal(_)
Decimal(n) ==
  IF n < 10 THEN <<DigitChar[n + 1]>>
  ELSE Decimal(n \div 10) \o <<DigitChar[(n % 10) + 1]>>

\* build.go:474-478: fmt.Sprintf("%s:%d:%d", relPath, size, mtime)
FileInfo(f) ==
  RelPath(f) \o <<":">> \o Decimal(f.size) \o <<":">> \o Decimal(f.mtime)

\* hidden files are walked over like the others
IsSkippedNever(f) == FALSE

\* build.go:456-468: a file below a hidden directory is never visited
\* (filepath.SkipDir) and a hidden file is skipped
IsSkipped(f) ==
  \/ (f.dir # <<>> /\ Head(f.dir) = ".")
  \/ Head(f.name) = "."

\* build.go:451-480: the fileInfos of the files visited, in the order of
\* the visit
RECURSIVE FileInfosOf(_)
FileInfosOf(visit) ==
  IF visit = <<>> THEN <<>>
  ELSE IF IsSkipped(Head(visit)) THEN FileInfosOf(Tail(visit))
  ELSE <<FileInfo(Head(visit))>> \o FileInfosOf(Tail(visit))

\* the order of Go strings: byte by byte, a proper prefix first
RECURSIVE StringLess(_, _)
StringLess(x, y) ==
  IF y = <<>> THEN FALSE
  ELSE IF x = <<>> THEN TRUE
  ELSE IF Byte[Head(x)] # Byte[Head(y)] THEN Byte[Head(x)] < Byte[Head(y)]
  ELSE StringLess(Tail(x), Tail(y))

RECURSIVE InsertSorted(_, _)
InsertSorted(x, sorted) ==
  IF sorted = <<>> THEN <<x>>
  ELSE IF StringLess(Head(sorted), x)
       THEN <<Head(sorted)>> \o InsertSorted(x, Tail(sorted))
       ELSE <<x>> \o sorted

\* the fileInfos are hashed in the order of the visit
SortStringsOmitted(strs) == strs

\* build.go:486: sort.Strings
RECURSIVE SortStrings(_)
SortStrings(strs) ==
  IF strs = <<>> THEN <<>>
  ELSE InsertSorted(Head(strs), SortStrings(Tail(strs)))

\* build.go:489: strings.Join(fileInfos, "|")
RECURSIVE JoinStrings(_)
JoinStrings(strs) ==
  IF strs = <<>> THEN <<>>
  ELSE IF Len(strs) = 1 THEN Head(strs)
  ELSE Head(strs) \o <<"|">> \o JoinStrings(Tail(strs))

\* build.go:490-492: the SHA-256 digest in hexadecimal, taken as a function
\* that maps no two strings to one digest
Sha256Hex(str) == <<"sha256", str>>

\* build.go:448-493, for the visit of the files in the given order
HashOfVisit(visit) == Sha256Hex(JoinStrings(SortStrings(FileInfosOf(visit))))

Unhashed == [done |-> FALSE, tree |-> {}, digest |-> <<>>]

\* a file of the directory is made, removed, changed or touched
ChangeFiles ==
  /\ pc = "idle"
  /\ tree' \in Trees \ {tree}
  /\ UNCHANGED hashed
  /\ UNCHANGED <<catalog, scaffoldVars, packages, pc, warnings, resolverVars,
                 buildOrder, groupVars, runVars>>

\* a call of calculatePackageHash; filepath.Walk visits the files in some
\* order
CalculateHash ==
  /\ pc = "idle"
  /\ \E visit \in Perms(tree) :
       hashed' = [done |-> TRUE, tree |-> tree, digest |-> HashOfVisit(visit)]
  /\ UNCHANGED tree
  /\ UNCHANGED <<catalog, scaffoldVars, packages, pc, warnings, resolverVars,
                 buildOrder, groupVars, runVars>>

\* no directory is looked at
NoHashing ==
  /\ tree = {}
  /\ hashed = Unhashed

(***************************************************************************)
(* The workspaces of the runs.                                             *)
(***************************************************************************)
Workspace(a, b, c) == <<RootRecord, a, b, c>>

RunCatalogs ==
  { \* a and b have no dependency, c depends on a
    Workspace(Config("a", <<>>, "make a", LibDir),
              Config("b", <<>>, "", LibDir),
              Config("c", <<"a">>, "", LibDir)),
    \* a chain
    Workspace(Config("a", <<>>, "", LibDir),
              Config("b", <<"a">>, "", LibDir),
              Config("c", <<"b">>, "make c", LibDir)),
    \* a cycle, a missing dependency, and a package with no build command
    Workspace(Config("a", <<"b">>, "", LibDir),
              Config("b", <<"a", "x">>, "", LibDir),
              Config("c", <<>>, "", AppDir)),
    \* a package of no type beside one with no build command and one with
    Workspace(Config("a", <<>>, "", "vendor"),
              Config("b", <<>>, "", AppDir),
              Config("c", <<>>, "make c", AppDir)),
    \* the root grit.yaml alone
    <<RootRecord>> }

\* no run of the build command has started
Idle ==
  /\ packages = <<>>
  /\ pc = "idle"
  /\ warnings = {}
  /\ graph = EmptyMap
  /\ nodeMap = EmptyMap
  /\ inDegree = EmptyMap
  /\ queue = <<>>
  /\ order = <<>>
  /\ buildOrder = <<>>
  /\ dependsOn = EmptyMap
  /\ dependedOnBy = EmptyMap
  /\ remaining = EmptyMap
  /\ levels = <<>>
  /\ forced = {}
  /\ noCache = FALSE
  /\ dirtyFlag = FALSE
  /\ runs = 0
  /\ loaded = FALSE
  /\ edits = 0
  /\ outdated = {}
  /\ level = 0
  /\ next = 0
  /\ wg = 0
  /\ resultChan = <<>>
  /\ levelFailures = 0
  /\ totalPackages = 0
  /\ successCount = 0
  /\ failedPackages = <<>>
  /\ exitCode = 0
  /\ task = EmptyMap

\* the cache directory a workspace can start with: empty, or with the entry
\* that an earlier build of one package left (build.go:440-442), whatever the
\* root grit.yaml says of its type by now
EarlierBuilds(cfgs) ==
  {{}} \cup {{n} : n \in Names(cfgs) \ {RootName}}

\* a workspace in which nothing has been built, or one package has
Init ==
  /\ catalog \in RunCatalogs
  /\ files = [n \in Names(catalog) \ {RootName} |-> 1]
  /\ \E built \in EarlierBuilds(catalog) :
       /\ cache = [n \in built |-> files[n]]
       /\ clean = [n \in built |-> files[n]]
  /\ Idle
  /\ rootFile = RootFile("absent", EmptyMap)
  /\ Unscaffolded
  /\ NoHashing

ResolverNext ==
  \/ ResolveBuildGraph
  \/ ResolveInitQueue
  \/ ResolvePop
  \/ ResolveFinish

GroupNext ==
  \/ GroupInit
  \/ GroupRound
  \/ GroupReturn

TaskNext ==
  \/ TaskCheckCache
  \/ TaskResolveCommand
  \/ TaskRunCommand
  \/ TaskSaveHash
  \/ TaskSend

CoordinatorNext ==
  \/ StartRun
  \/ LoadFails
  \/ DirtyFilter
  \/ BeginBuild
  \/ StageStart
  \/ Launch
  \/ WaitAndClose
  \/ Collect
  \/ StageEnd
  \/ StagesDone
  \/ Summary

Next == ResolverNext \/ GroupNext \/ TaskNext \/ CoordinatorNext \/ Edit

Spec == Init /\ [][Next]_vars

(***************************************************************************)
(* The resolver and the scheduler on every generated catalog.              *)
(***************************************************************************)
\* a generated catalog, some of whose packages have been built and cached
GraphInit ==
  /\ catalog \in GraphCatalogs
  /\ files = [n \in Names(catalog) \ {RootName} |-> 1]
  /\ \E built \in SUBSET (Names(catalog) \ {RootName}) :
       /\ cache = [n \in built |-> files[n]]
       /\ clean = [n \in built |-> files[n]]
  /\ Idle
  /\ rootFile = RootFile("absent", EmptyMap)
  /\ Unscaffolded
  /\ NoHashing

\* a run of the build command with the cache in use, up to the stages: a plain
\* run of a workspace with no cache entry, a dirty-only run of any other
GraphStart ==
  /\ StartRun
  /\ ~noCache'
  /\ dirtyFlag' = (cache # EmptyMap)

GraphNext == GraphStart \/ DirtyFilter \/ ResolverNext \/ GroupNext

SpecGraph == GraphInit /\ [][GraphNext]_vars

\* the resolver and the scheduler are sequential code of a running process
FairSpecGraph == SpecGraph /\ WF_vars(GraphNext)

(***************************************************************************)
(* The scaffolding commands and the callers of config.go on a workspace    *)
(* in which no build is running.                                           *)
(***************************************************************************)
\* a lib type that a user wrote by hand
CustomLib == TypeConfig(<<"custom", "lib">>, <<>>, <<>>, EmptyMap)

\* the root grit.yaml is missing, does not parse, or holds no type or one
ScaffoldInit ==
  /\ catalog = <<RootRecord>>
  /\ files = EmptyMap
  /\ cache = EmptyMap
  /\ clean = EmptyMap
  /\ Idle
  /\ rootFile \in {RootFile("absent", EmptyMap), RootFile("corrupt", EmptyMap),
                   RootFile("ok", EmptyMap),
                   RootFile("ok", [t \in {"lib"} |-> CustomLib])}
  /\ Unscaffolded
  /\ NoHashing

ScaffoldNext ==
  \/ LoadConfig
  \/ CallMergeDefaults
  \/ SaveConfig
  \/ newTypeCmd
  \/ newCmd

SpecScaffold == ScaffoldInit /\ [][ScaffoldNext]_vars

(***************************************************************************)
(* calculatePackageHash on a package directory whose files change.         *)
(***************************************************************************)
HashInit ==
  /\ catalog = <<RootRecord>>
  /\ files = EmptyMap
  /\ cache = EmptyMap
  /\ clean = EmptyMap
  /\ Idle
  /\ rootFile = RootFile("absent", EmptyMap)
  /\ Unscaffolded
  /\ tree \in Trees
  /\ hashed = Unhashed

HashNext == ChangeFiles \/ CalculateHash

SpecHash == HashInit /\ [][HashNext]_vars

(***************************************************************************)
(* Properties of the resolver and the scheduler.                           *)
(***************************************************************************)
UniqueNames(cfgs) ==
  \A i, j \in DOMAIN cfgs : cfgs[i].Name = cfgs[j].Name => i = j

\* the edges package -> dependency among the records given
DepEdges(cfgs) ==
  UNION {{<<cfgs[i].Name, d>> : d \in Range(cfgs[i].Dependencies) \cap Names(cfgs)} :
         i \in DOMAIN cfgs}

RECURSIVE TransitiveClosure(_)
TransitiveClosure(R) ==
  LET R2 == R \cup {<<p[1][1], p[2][2]>> : p \in {q \in R \X R : q[1][2] = q[2][1]}}
  IN IF R2 = R THEN R ELSE TransitiveClosure(R2)

Acyclic(cfgs) == \A e \in TransitiveClosure(DepEdges(cfgs)) : e[1] # e[2]

IsPermutation(s, t) ==
  /\ Len(s) = Len(t)
  /\ \A x \in Range(s) \cup Range(t) : Count(s, x) = Count(t, x)

\* the dependencies of a record that name a record of the list
ResolvableDeps(cfg, cfgs) == Range(cfg.Dependencies) \cap Names(cfgs)

\* C1: for an acyclic graph over packages with unique names, every package
\* of the Build Order that resolveDependencies returns comes strictly after
\* each of its dependencies that names a package of the resolver's input.
TopologicalValidity ==
  (pc = "resolved" /\ UniqueNames(packages) /\ Acyclic(packages)) =>
    \A i \in DOMAIN buildOrder :
      \A d \in ResolvableDeps(buildOrder[i], packages) :
        \E j \in 1..(i - 1) : buildOrder[j].Name = d

\* an acyclic chain c -> b -> a has been resolved
TopologicalWitness ==
  /\ pc = "resolved"
  /\ UniqueNames(packages)
  /\ Acyclic(packages)
  /\ \E i, j \in DOMAIN buildOrder :
       /\ buildOrder[j].Name \in ResolvableDeps(buildOrder[i], packages)
       /\ ResolvableDeps(buildOrder[j], packages) # {}

\* C2 as claimed: for every input list, the order returned is a permutation
\* of the input records.
ResolvePermutationOfAnyInput ==
  pc = "resolved" => IsPermutation(buildOrder, packages)

\* C2, amended: for every input list of records with pairwise distinct
\* names, cyclic or not, resolveDependencies terminates and the order it
\* returns is a permutation of the input.
ResolveTerminatesWithPermutation ==
  /\ [](pc = "resolved" /\ UniqueNames(packages) => IsPermutation(buildOrder, packages))
  /\ (pc = "resolve" ~> pc = "resolved")

\* a graph with a cycle has been resolved
ResolveCycleWitness ==
  /\ pc = "resolved"
  /\ UniqueNames(packages)
  /\ ~Acyclic(packages)
  /\ CycleWarning \in warnings
  /\ Len(buildOrder) = Len(packages)

StageOf(n) == CHOOSE k \in DOMAIN levels : n \in Names(levels[k])

Scheduled == UNION {Names(levels[k]) : k \in DOMAIN levels}

\* C3 as claimed: for every graph (of packages with unique names), cyclic
\* or not, a package of a stage after the first has each of its resolvable
\* dependencies in an earlier stage, and a package of the first stage has no
\* resolvable dependency.
StageSoundnessOfAnyGraph ==
  (pc = "grouped" /\ UniqueNames(packages)) =>
    \A k \in DOMAIN levels : \A i \in DOMAIN levels[k] :
      LET deps == ResolvableDeps(levels[k][i], packages)
      IN IF k = 1 THEN deps = {}
         ELSE \A d \in deps : \E j \in 1..(k - 1) : d \in Names(levels[j])

\* C3, amended: for every acyclic graph, a package of a stage after the
\* first has each of its dependencies that is scheduled in an earlier stage,
\* and a package of the first stage has no scheduled dependency.
StageSoundness ==
  (pc = "grouped" /\ Acyclic(packages)) =>
    \A k \in DOMAIN levels : \A i \in DOMAIN levels[k] :
      \A d \in Range(levels[k][i].Dependencies) \cap Scheduled :
        k > 1 /\ \E j \in 1..(k - 1) : d \in Names(levels[j])

\* an acyclic chain has been scheduled in three stages
StageSoundnessWitness ==
  /\ pc = "grouped"
  /\ Acyclic(packages)
  /\ Len(levels) = 3
  /\ \A k \in 2..3 : Range(levels[k][1].Dependencies) \cap Scheduled # {}

(***************************************************************************)
(* Properties of the runs.                                                 *)
(***************************************************************************)
Failed(n) == n \in Launched /\ task[n].err # ""

Succeeded(n) == n \in Launched /\ task[n].pc = "done" /\ task[n].err = ""

\* the goroutine of n takes its cache check in this step
ChecksCache(n) ==
  /\ n \in Launched
  /\ task[n].pc = "check"
  /\ n \in DOMAIN task'
  /\ task'[n].pc # "check"

\* C4: in a run over an acyclic graph, a task is started only when each
\* dependency of its package that takes part in the run has finished with
\* success in an earlier stage; no package that depends, directly or
\* transitively, on a failed package is started.
StartedAfterDependencies ==
  Acyclic(packages) =>
    \A n \in Launched :
      /\ \A d \in Range(ConfigOf(n).Dependencies) \cap Scheduled :
           Succeeded(d) /\ task[d].level < task[n].level
      /\ \A e \in TransitiveClosure(DepEdges(packages)) :
           e[1] = n => ~Failed(e[2])

\* a task of the second stage runs, whose dependency was built in the first
StartedAfterDependenciesWitness ==
  /\ Acyclic(packages)
  /\ \E n \in Launched :
       /\ task[n].level = 2
       /\ task[n].pc = "exec"
       /\ \E d \in Range(ConfigOf(n).Dependencies) : Succeeded(d) /\ task[d].ran

\* C5: once a stage has a failed package, no task of a later stage is
\* launched; at the end of the run the failed names are those of the tasks
\* that returned an error, the success count is the number of the other
\* tasks, every package of the stages up to the failing one has its task's
\* outcome recorded, and the packages of the later stages have none.
FailFastStaging ==
  /\ \A n, m \in Launched : Failed(n) => task[m].level <= task[n].level
  /\ (pc = "done" /\ totalPackages > 0) =>
       /\ Range(failedPackages) = {n \in Launched : Failed(n)}
       /\ Len(failedPackages) = Cardinality({n \in Launched : Failed(n)})
       /\ successCount = Cardinality({n \in Launched : Succeeded(n)})
       /\ \A k \in DOMAIN levels :
            IF k <= level
            THEN \A n \in Names(levels[k]) : n \in Launched /\ task[n].pc = "done"
            ELSE Names(levels[k]) \cap Launched = {}

\* a run has ended in which a and b were attempted, one failed and the other
\* succeeded, and the second stage was not started
FailFastWitness ==
  /\ pc = "done"
  /\ Len(levels) = 2
  /\ level = 1
  /\ Len(failedPackages) = 1
  /\ successCount = 1
  /\ Names(levels[2]) \cap Launched = {}

\* C6: no task of a stage starts before every task of the earlier stages has
\* finished and its result has been received.
StageBarrier ==
  \A n, m \in Launched :
    task[m].level < task[n].level =>
      /\ task[m].pc = "done"
      /\ \A i \in DOMAIN resultChan : resultChan[i].packageName # m

\* a task of the second stage has started
StageBarrierWitness ==
  \E n, m \in Launched :
    /\ task[m].level = 1
    /\ task[n].level = 2
    /\ task[n].pc = "check"

\* the coordinator has decided, or is deciding, about the stage in progress
Decided == pc \in {"collect", "stage", "summary", "done"}

\* C7: a step changes the state of at most one task, that task is not yet
\* finished, and the coordinator decides about the next stage only when
\* every task launched has finished.
SiblingsIndependent ==
  /\ [](Decided => \A n \in Launched : task[n].pc = "done")
  /\ [][\A n \in Launched \cap DOMAIN task' :
          task'[n] # task[n] =>
            /\ task[n].pc # "done"
            /\ \A m \in (Launched \cap DOMAIN task') \ {n} : task'[m] = task[m]]_vars

\* a task has failed and a sibling of its stage is still running its command
SiblingsWitness ==
  \E n, m \in Launched :
    /\ task[n].level = task[m].level
    /\ task[n].pc = "done"
    /\ task[n].err \in {ErrFailed, ErrTimeout}
    /\ task[m].pc = "exec"

\* C8: a package built with success with the cache in use, whose files have
\* not changed since, is a cache hit when it is attempted again with the
\* cache in use: no command runs, the result is a success, and the cache
\* entry is the one the build stored.
CacheIdempotence ==
  [][\A n \in Launched :
       (ChecksCache(n) /\ ~noCache /\ n \in DOMAIN clean) =>
         /\ task'[n].hit
         /\ task'[n].pc = "send"
         /\ task'[n].err = ""
         /\ ~task'[n].ran
         /\ n \in DOMAIN cache /\ cache[n] = clean[n]
         /\ cache' = cache]_vars

\* in a second, plain run an unchanged package was found in the cache
CacheIdempotenceWitness ==
  /\ runs = 2
  /\ ~dirtyFlag
  /\ \E n \in Launched : task[n].hit /\ n \in DOMAIN clean

\* C9 as claimed: when executeBuild takes its cache check with the cache in
\* use, and the package has no cache entry or one that differs from its
\* current fingerprint, it is not a cache hit and goes on to its command.
CacheMissBuilds ==
  [][\A n \in Launched :
       (ChecksCache(n) /\ ~noCache /\ IsDirectlyDirty(n)) =>
         ~task'[n].hit /\ task'[n].pc = "resolve"]_vars

\* C10: a step creates or changes the cache entry of one package only, and
\* it is the save of the task of that package after its command has ended
\* with success; no entry is removed.
CacheWrittenOnlyAfterSuccess ==
  [][/\ DOMAIN cache \subseteq DOMAIN cache'
     /\ \A n \in DOMAIN cache' :
          (n \notin DOMAIN cache \/ cache'[n] # cache[n]) =>
            /\ n \in Launched
            /\ task[n].pc = "save"
            /\ task[n].ran
            /\ task[n].err = ""
            /\ ~task[n].hit
            /\ \A m \in DOMAIN cache : m # n => cache'[m] = cache[m]]_vars

\* one build has stored its hash, another has failed and stored none
CacheWrittenWitness ==
  \E n, m \in Launched :
    /\ task[n].ran /\ task[n].err = "" /\ task[n].pc = "done"
    /\ n \in DOMAIN cache
    /\ task[m].ran /\ task[m].err # "" /\ task[m].pc = "done"
    /\ m \notin DOMAIN cache

\* the packages that are directly dirty or reach one along dependency edges
DirtyClosure(cfgs) ==
  LET dd == DirectlyDirtyOf(cfgs)
      tc == TransitiveClosure(DepEdges(cfgs))
  IN dd \cup {n \in Names(cfgs) : \E d \in dd : <<n, d>> \in tc}

\* C11: in a dirty-only run, for every graph, cyclic ones included, the
\* records passed on to the resolver are those of the catalog, in its order,
\* whose package is directly dirty or has a dependency path to a directly
\* dirty package; every other package is left out, and the run ends there
\* when none is left.
DirtyPropagationExact ==
  [][pc = "filter" =>
       /\ packages' = SelectSeq(packages, LAMBDA cfg : cfg.Name \in DirtyClosure(packages))
       /\ (pc' = "resolve") <=> (packages' # <<>>)]_vars

\* a dirty-only run goes on with a package that is dirty only through a
\* dependency, and without a package of the catalog
DirtyPropagationWitness ==
  /\ dirtyFlag
  /\ pc = "resolve"
  /\ \E n \in Names(packages) :
       /\ ~IsDirectlyDirty(n)
       /\ \E d \in Range(NodeMapOf(packages)[n].Dependencies) : IsDirectlyDirty(d)
  /\ (Names(catalog) \ {RootName}) \ Names(packages) # {}

\* the package has a type, and neither its own targets nor any type it can
\* be given has a build command
HasNoCommand(cfg) ==
  /\ MatchingTypes(cfg) # {}
  /\ cfg.Build = ""
  /\ \A t \in MatchingTypes(cfg) : RootTypes[t].Build = ""

\* C12 as claimed: every finished task of a package with no build command
\* has ended with the "no build command" error.
NoCommandAlwaysFails ==
  \A n \in Launched :
    (task[n].pc = "done" /\ HasNoCommand(ConfigOf(n))) => task[n].err = ErrNoCommand

\* C12, amended: a task that is past its cache check without a hit, for a
\* package with no build command, ends with the "no build command" error and
\* runs no command; its result is a failure, its name is in the failed list
\* at the end of the run, and the step in which it fails changes no other
\* task.
NoCommandFails ==
  /\ [](\A n \in Launched :
          (HasNoCommand(ConfigOf(n)) /\ ~task[n].hit /\ task[n].pc \in {"send", "done"}) =>
            /\ task[n].err = ErrNoCommand
            /\ ~task[n].ran
            /\ \A i \in DOMAIN resultChan :
                 resultChan[i].packageName = n => ~resultChan[i].success
            /\ pc \in {"summary", "done"} => n \in Range(failedPackages))
  /\ [][\A n \in Launched \cap DOMAIN task' :
          (task[n].pc = "resolve" /\ task'[n].err = ErrNoCommand) =>
            \A m \in (Launched \cap DOMAIN task') \ {n} : task'[m] = task[m]]_vars

\* a package with no build command has failed and a sibling of its stage has
\* run its command with success
NoCommandWitness ==
  \E n, m \in Launched :
    /\ n # m
    /\ task[n].level = task[m].level
    /\ task[n].pc = "done" /\ task[n].err = ErrNoCommand
    /\ HasNoCommand(ConfigOf(n))
    /\ task[m].pc = "done" /\ task[m].ran /\ task[m].err = ""

\* C13 as claimed: every run that has ended has the exit status 1 exactly
\* when a task of it returned an error, and its failed list holds exactly
\* the packages of those tasks.
ExitFailureIffPackageFailed ==
  (pc = "done" /\ runs > 0) =>
    /\ (exitCode # 0) <=> (\E n \in Launched : Failed(n))
    /\ Range(failedPackages) = {n \in Launched : Failed(n)}

\* C13, amended: a run that has loaded its packages and has ended has the
\* exit status 1 exactly when a task of it returned an error, and its failed
\* list holds exactly the packages of those tasks, each once; a run whose
\* packages could not be loaded ends with the exit status 1 and no task.
ExitFailureIffFailedOrNotLoaded ==
  (pc = "done" /\ runs > 0) =>
    /\ loaded =>
         /\ (exitCode # 0) <=> (\E n \in Launched : Failed(n))
         /\ Range(failedPackages) = {n \in Launched : Failed(n)}
         /\ \A n \in Launched : Count(failedPackages, n) <= 1
    /\ ~loaded => exitCode # 0 /\ Launched = {}

\* a run has ended with the exit status 1 and one failed package beside a
\* package that succeeded
ExitFailureWitness ==
  /\ pc = "done"
  /\ loaded
  /\ exitCode = 1
  /\ Len(failedPackages) = 1
  /\ \E n \in Launched : Succeeded(n)

\* C14 as claimed: in the summary of a run that has ended, the number of
\* failed packages is the length of the failed list, and the packages
\* counted as succeeded or failed are those of the tasks launched.
ReportCountsAttemptedOnly ==
  (pc = "done" /\ loaded /\ totalPackages > 0) =>
    LET report == FormatterSummary(successCount, totalPackages)
    IN /\ report.failed = Len(failedPackages)
       /\ report.succeeded + report.failed = Cardinality(Launched)

\* the records of the stages, one after another
Staged == Concat(levels)

\* C15 as claimed: the stages that groupPackagesByLevel returns are pairwise
\* disjoint and their union is the set of the records of the Build Order
\* that resolveDependencies returned: each record of the Build Order is in
\* exactly one stage.
StagesPartitionBuildOrder ==
  pc = "grouped" =>
    /\ \A i, j \in DOMAIN Staged : Staged[i].Name = Staged[j].Name => i = j
    /\ Range(Staged) = Range(buildOrder)
    /\ \A i \in DOMAIN buildOrder : Count(Staged, buildOrder[i]) = 1

\* C16: for every input of N named packages, cyclic or not,
\* groupPackagesByLevel returns: every round takes at least one package out
\* of the remaining ones, no stage is empty, and the stages and the
\* remaining packages are never more than N together.
GroupTerminatesWithinN ==
  /\ [](pc \in {"group", "grouped"} =>
          /\ \A k \in DOMAIN levels : levels[k] # <<>>
          /\ Len(levels) + Cardinality(DOMAIN remaining)
               <= Len(getPackageNames(buildOrder)))
  /\ [][pc = "group" /\ levels' # levels =>
          /\ Len(levels') = Len(levels) + 1
          /\ Cardinality(DOMAIN remaining') < Cardinality(DOMAIN remaining)]_vars
  /\ (pc = "resolved" ~> pc = "grouped")

\* three packages on a cycle have been scheduled in three stages, the first
\* of them forced
GroupCycleWitness ==
  /\ pc = "grouped"
  /\ 1 \in forced
  /\ Len(levels) = 3
  /\ Len(getPackageNames(buildOrder)) = 3

\* the dependencies a record declares that name no package of the catalog
MissingDeps(cfg) == Range(cfg.Dependencies) \ Names(catalog)

\* the resolver has built its graph
GraphBuilt == pc \in {"queue", "kahn", "resolved", "group", "grouped"}

\* C17: a declared dependency that names no package of the catalog is no
\* edge of the resolver's graph and has its warning; the package declaring
\* it is in the Build Order and in a stage, and it is put in a stage in the
\* first round in which none of its other dependencies remains.
MissingDependencyHarmless ==
  /\ [](GraphBuilt =>
          /\ \A n \in DOMAIN graph : Range(graph[n]) \subseteq Names(catalog)
          /\ \A i \in DOMAIN packages :
               /\ \A d \in MissingDeps(packages[i]) :
                    MissingWarning(packages[i].Name, d) \in warnings
               /\ (MissingDeps(packages[i]) # {} /\ pc \in {"resolved", "group"}) =>
                    packages[i].Name \in Names(buildOrder)
               /\ (MissingDeps(packages[i]) # {} /\ pc = "grouped"
                     /\ packages[i].Name # RootName) =>
                    packages[i].Name \in Scheduled)
  /\ [][(pc = "group" /\ levels' # levels) =>
          \A n \in DOMAIN remaining :
            ((Range(remaining[n].Dependencies) \ MissingDeps(remaining[n]))
                 \cap DOMAIN remaining = {}) =>
              n \in Names(levels'[Len(levels')])]_vars

\* a package that declares a missing dependency and a dependency of the
\* first stage is in the second stage
MissingDependencyWitness ==
  /\ pc = "grouped"
  /\ Len(levels) >= 2
  /\ \E i \in DOMAIN levels[2] :
       /\ MissingDeps(levels[2][i]) # {}
       /\ Range(levels[2][i].Dependencies) \cap Names(levels[1]) # {}
       /\ \E d \in MissingDeps(levels[2][i]) :
            MissingWarning(levels[2][i].Name, d) \in warnings

\* C18: for packages with unique names, resolveDependencies has given the
\* cycle warning exactly when the graph of the resolvable dependencies has a
\* cycle, a self-dependency included.
CycleWarningIffCyclic ==
  (pc = "resolved" /\ UniqueNames(packages)) =>
    ((CycleWarning \in warnings) <=> ~Acyclic(packages))

\* a package that depends on itself, and on nothing else that is on a cycle,
\* has been resolved with the cycle warning
SelfCycleWitness ==
  /\ pc = "resolved"
  /\ UniqueNames(packages)
  /\ CycleWarning \in warnings
  /\ \E i \in DOMAIN packages :
       /\ packages[i].Name \in Range(packages[i].Dependencies)
       /\ Acyclic(SelectSeq(packages, LAMBDA cfg : cfg.Name # packages[i].Name))

\* C19 as claimed: the record with the empty name is no node of the graph
\* that resolveDependencies builds, and it is neither in the Build Order nor
\* in a stage.
RootRecordNeverANode ==
  /\ RootName \notin DOMAIN nodeMap
  /\ RootName \notin DOMAIN graph
  /\ RootName \notin Names(buildOrder)
  /\ RootName \notin Scheduled

\* C20 as claimed: a task whose command was killed at the deadline has the
\* timeout error, and a task whose command exited with a non-zero status
\* before the deadline has the "build command failed" error.
TimeoutAndFailureDistinct ==
  \A n \in Launched :
    task[n].ran =>
      /\ task[n].outcome = "timeout" => task[n].err = ErrTimeout
      /\ task[n].outcome \in {"exit", "exitLate"} => task[n].err = ErrFailed

\* the goroutine of n is past the resolution of its build command
PastResolve(n) ==
  /\ n \in Launched
  /\ ~task[n].hit
  /\ task[n].pc \in {"exec", "save", "send", "done"}
  /\ MatchingTypes(ConfigOf(n)) # {}

\* C21: the build command resolved for a package of a type is the package's
\* own "build" target when that is not empty, whatever the type defines,
\* and otherwise the non-empty "build" target of its type.
EffectiveCommandOwnFirst ==
  \A n \in Launched :
    PastResolve(n) =>
      LET cfg == ConfigOf(n)
      IN IF cfg.Build # ""
         THEN task[n].cmd = cfg.Build
         ELSE \/ /\ task[n].cmd # ""
                 /\ \E t \in MatchingTypes(cfg) : task[n].cmd = RootTypes[t].Build
              \/ /\ task[n].cmd = ""
                 /\ task[n].err = ErrNoCommand
                 /\ \E t \in MatchingTypes(cfg) : RootTypes[t].Build = ""

\* one package runs its own build target although its type defines another,
\* and a package with none of its own runs that of the type
EffectiveCommandWitness ==
  \E n, m \in Launched :
    /\ PastResolve(n) /\ PastResolve(m)
    /\ ConfigOf(n).Build # ""
    /\ task[n].cmd = ConfigOf(n).Build
    /\ \E t \in MatchingTypes(ConfigOf(n)) : RootTypes[t].Build \notin {"", task[n].cmd}
    /\ ConfigOf(m).Build = ""
    /\ task[m].cmd # ""

\* C22: a package whose cache entry cannot be read is kept by the dirty
\* pre-filter, and its executeBuild passes the cache check without a hit and
\* without an error and goes on to its build command.
CacheReadFailureAssumesDirty ==
  [][/\ pc = "filter" =>
          \A i \in DOMAIN packages :
            (packages[i].Name # RootName /\ packages[i].Name \notin DOMAIN cache) =>
              \E j \in DOMAIN packages' : packages'[j] = packages[i]
     /\ \A n \in Launched :
          (ChecksCache(n) /\ n \notin DOMAIN cache) =>
            /\ ~task'[n].hit
            /\ task'[n].err = ""
            /\ task'[n].pc = "resolve"]_vars

\* in a dirty-only run with the cache in use, a package with no readable
\* cache entry is at its build command while another package was left out
CacheReadFailureWitness ==
  /\ dirtyFlag
  /\ ~noCache
  /\ \E n \in Launched : task[n].pc = "exec" /\ n \notin DOMAIN cache
  /\ (Names(catalog) \ {RootName}) \ Names(packages) # {}

\* C23: the stages of a run hold each package name once, and the package
\* that the coordinator launches next has no task yet: in the whole run one
\* task at most reads or writes the cache entry of a name.
OneTaskPerCacheKey ==
  /\ pc \in {"grouped", "stage", "launch", "collect", "summary"} =>
       \A i, j \in DOMAIN Staged : Staged[i].Name = Staged[j].Name => i = j
  /\ (pc = "launch" /\ next <= Len(levels[level])) =>
       levels[level][next].Name \notin Launched

\* two tasks of a stage are running their commands at the same time
ConcurrentTasksWitness ==
  \E n, m \in Launched :
    /\ n # m
    /\ task[n].level = task[m].level
    /\ task[n].pc = "exec"
    /\ task[m].pc = "exec"
    /\ ~noCache

\* C24: in a run with --no-cache no task is a cache hit and no step creates,
\* changes or removes a cache entry.
NoCacheBypassesCache ==
  [][noCache' =>
       /\ cache' = cache
       /\ \A n \in DOMAIN task' : ~task'[n].hit]_vars

\* in a run with --no-cache a package whose cache entry matches its files
\* and a package with no cache entry have both been built with success
NoCacheWitness ==
  /\ noCache
  /\ \E n, m \in Launched :
       /\ task[n].pc = "done" /\ task[n].ran /\ task[n].err = ""
       /\ n \in DOMAIN cache /\ cache[n] = calculatePackageHash(n)
       /\ task[m].pc = "done" /\ task[m].ran /\ task[m].err = ""
       /\ m \notin DOMAIN cache

\* C25: a call of RootConfig.MergeDefaults leaves a configuration that has a
\* "lib" type; it adds the default "lib" type with the targets of the given
\* defaults when there was none, it leaves every type that was there (an
\* existing "lib" included) as it was and adds no other, and calling it again
\* with any defaults changes nothing.
MergeDefaultsContract ==
  [][cli'.op = "MergeDefaults" =>
       /\ DOMAIN config' = DOMAIN config \cup {"lib"}
       /\ \A t \in DOMAIN config : config'[t] = config[t]
       /\ "lib" \notin DOMAIN config =>
            /\ config'["lib"].PackageDir = <<"packages", "lib">>
            /\ config'["lib"].BuildDir = <<"build", "lib">>
            /\ config'["lib"].CoverageDir = <<"coverage", "lib">>
            /\ \E d \in DefaultsGiven : config'["lib"].Targets = d.Targets
       /\ \A d \in DefaultsGiven : MergeDefaults(config', d) = config']_vars

\* MergeDefaults has been called on a loaded configuration that holds a
\* hand-written "lib" type and another type, and both are as they were
MergeDefaultsWitness ==
  /\ cli.op = "MergeDefaults"
  /\ DOMAIN config = {"lib", "svc"}
  /\ config["lib"] = CustomLib
  /\ rootFile.kind = "ok" /\ rootFile.Types = config

\* C26: `grit new type` with the name of a type of the root configuration
\* ends with an error and leaves the root configuration as it was.
DuplicateTypeRejected ==
  [][(/\ cli'.op = "new type"
      /\ rootFile.kind = "ok"
      /\ cli'.typeName \in DOMAIN rootFile.Types) =>
       (cli'.err # "" /\ rootFile' = rootFile)]_vars

\* C27: `grit new` with a type that the root configuration does not hold
\* ends with an error and makes no directory and writes no package
\* configuration.
UnknownTypeRejected ==
  [][(/\ cli'.op = "new"
      /\ (rootFile.kind # "ok" \/ cli'.typeName \notin DOMAIN rootFile.Types)) =>
       (cli'.err # "" /\ dirs' = dirs /\ pkgFiles' = pkgFiles)]_vars

\* `grit new` has been refused for a type the root configuration lacks, in a
\* workspace whose configuration holds another type with a package made
UnknownTypeWitness ==
  /\ cli.op = "new" /\ cli.err = ErrNoSuchType
  /\ rootFile.kind = "ok"
  /\ cli.typeName \notin DOMAIN rootFile.Types
  /\ DOMAIN rootFile.Types # {}
  /\ pkgFiles # EmptyMap

\* the dependencies that the staged record of name n declares among the
\* staged packages
StagedDeps(n) ==
  UNION {Range(Staged[i].Dependencies) \cap Scheduled :
           i \in {j \in DOMAIN Staged : Staged[j].Name = n}}

\* the length of the longest chain of staged dependencies below n
RECURSIVE ChainBelow(_)
ChainBelow(n) ==
  IF StagedDeps(n) = {} THEN 0
  ELSE LET below == {ChainBelow(d) : d \in StagedDeps(n)}
       IN 1 + CHOOSE x \in below : \A y \in below : y <= x

\* C28: for an acyclic graph, stage k holds every package that is in no
\* earlier stage and whose staged dependencies are all in earlier stages, and
\* the 0-based index of a package's stage is the length of the longest chain
\* of staged dependencies below it.
StagesMaximal ==
  (pc = "grouped" /\ Acyclic(packages)) =>
    \A k \in DOMAIN levels :
      LET earlier == UNION {Names(levels[j]) : j \in 1..(k - 1)}
      IN /\ \A n \in Scheduled \ earlier :
              StagedDeps(n) \subseteq earlier => n \in Names(levels[k])
         /\ \A n \in Names(levels[k]) : ChainBelow(n) = k - 1

\* an acyclic graph has been staged in two stages, the first of them holding
\* a dependency of the second stage beside a package that nothing depends on
StagesMaximalWitness ==
  /\ pc = "grouped"
  /\ Acyclic(packages)
  /\ Len(levels) = 2
  /\ \E n, m \in Names(levels[1]) :
       /\ n # m
       /\ n \in StagedDeps(levels[2][1].Name)
       /\ \A x \in Scheduled : m \notin StagedDeps(x)

\* the staged packages that declare n as a dependency
Dependents(n) == {m \in Scheduled : n \in StagedDeps(m)}

\* C29: in every stage the packages are in non-increasing order of the number
\* of their direct dependents, the staged packages that declare them as a
\* dependency.
StageOrderedByDependents ==
  pc = "grouped" =>
    \A k \in DOMAIN levels : \A i, j \in DOMAIN levels[k] :
      i < j => Cardinality(Dependents(levels[k][i].Name))
                 >= Cardinality(Dependents(levels[k][j].Name))

\* a stage holds a package with more dependents than the package after it
StageOrderWitness ==
  /\ pc = "grouped"
  /\ \E k \in DOMAIN levels : \E i \in DOMAIN levels[k] :
       /\ i + 1 \in DOMAIN levels[k]
       /\ Cardinality(Dependents(levels[k][i].Name))
            > Cardinality(Dependents(levels[k][i + 1].Name))

\* p and d are on a common cycle of the graph of the resolver's input
OnCommonCycle(p, d) ==
  /\ <<p, d>> \in TransitiveClosure(DepEdges(packages))
  /\ <<d, p>> \in TransitiveClosure(DepEdges(packages))

\* C30: for a graph with a cycle (over packages with unique names), every
\* package of the Build Order comes after each of its resolvable dependencies
\* that is not on a common cycle with it.
OrderLostOnlyOnCycle ==
  (pc = "resolved" /\ UniqueNames(packages) /\ ~Acyclic(packages)) =>
    \A i \in DOMAIN buildOrder :
      \A d \in ResolvableDeps(buildOrder[i], packages) :
        ~OnCommonCycle(buildOrder[i].Name, d) =>
          \E j \in 1..(i - 1) : buildOrder[j].Name = d

\* the (relative path, size, modification time) triples of the files that
\* are not hidden and not below a hidden directory
VisibleTriples(t) ==
  {<<RelPath(f), f.size, f.mtime>> :
     f \in {g \in t : Head(g.name) # "." /\ (g.dir = <<>> \/ Head(g.dir) # ".")}}

\* of two successive calls of calculatePackageHash
BothHashed == hashed.done /\ hashed'.done

\* C31: two successive fingerprints of a package directory are equal if and
\* only if the triples of its visible files are the same at both calls,
\* whatever happened to hidden files and whatever the order of the visits.
FingerprintIffTriples ==
  [][BothHashed =>
       ((hashed'.digest = hashed.digest)
          <=> (VisibleTriples(hashed'.tree) = VisibleTriples(hashed.tree)))]_vars

\* what the code keeps of it: the same triples give the same fingerprint
FingerprintOfTriples ==
  [][(BothHashed /\ VisibleTriples(hashed'.tree) = VisibleTriples(hashed.tree))
       => hashed'.digest = hashed.digest]_vars

\* a directory was fingerprinted, a hidden file and a file of a hidden
\* directory were added to its two visible files, and it was fingerprinted
\* again
FingerprintWitness ==
  /\ hashed.done
  /\ Cardinality(VisibleTriples(hashed.tree)) = 2
  /\ Cardinality(hashed.tree) = 4

\* C32: in a plain run with the cache in use the cache check of a package
\* is a hit exactly when its own cache entry is the fingerprint of its own
\* files, whatever the state of its dependencies; the witness is the run in
\* which a package is a hit beside a dependency rebuilt after a miss.
CacheCheckIgnoresDependencies ==
  [][\A n \in Launched :
       (ChecksCache(n) /\ ~noCache /\ ~dirtyFlag) =>
         (task'[n].hit <=> (n \in DOMAIN cache /\ cache[n] = files[n]))]_vars

\* in a plain run a package was a cache hit and was not built, and one of its
\* dependencies was a miss and was built with success
StaleHitWitness ==
  /\ ~noCache /\ ~dirtyFlag
  /\ \E n, d \in Launched :
       /\ d \in Range(ConfigOf(n).Dependencies)
       /\ task[n].pc = "done" /\ task[n].hit /\ ~task[n].ran /\ task[n].err = ""
       /\ task[d].pc = "done" /\ ~task[d].hit /\ task[d].ran /\ task[d].err = ""

\* C33: the packages that the dirty command lists on a workspace are the
\* packages that the dirty pre-filter of a build started on the same
\* workspace and cache selects.
DirtyCommandMatchesFilter ==
  [][(pc = "filter" /\ pc' # "filter") =>
       Names(dirtyCmd(catalog)) = Names(packages')]_vars

\* C34: in a dirty-only run with the cache in use, the cache check of a
\* package whose cache entry is the fingerprint of its files (it is in the
\* run through propagation only) is a hit; a task that was a hit runs no
\* command and ends without error, its result is counted as a success, and
\* its cache entry stays as it is.
PropagatedOnlyIsCacheHit ==
  /\ [][\A n \in Launched :
          (/\ ChecksCache(n)
           /\ dirtyFlag /\ ~noCache
           /\ n \in DOMAIN cache /\ cache[n] = files[n]) =>
            (task'[n].hit /\ task'[n].pc = "send" /\ cache' = cache)]_vars
  /\ []((dirtyFlag /\ ~noCache) =>
          \A n \in Launched : task[n].hit => (~task[n].ran /\ task[n].err = ""))
  /\ [][(/\ dirtyFlag /\ ~noCache
         /\ pc = "collect" /\ resultChan # <<>> /\ resultChan' = Tail(resultChan)
         /\ task[Head(resultChan).packageName].hit) =>
           (/\ successCount' = successCount + 1
            /\ failedPackages' = failedPackages)]_vars
  /\ [][(dirtyFlag /\ ~noCache) =>
          \A n \in Launched \cap DOMAIN task' :
            task[n].hit => (n \in DOMAIN cache' /\ cache'[n] = cache[n])]_vars

\* a dirty-only run has ended in which a package whose files are as its
\* cache entry says was a hit and counted, and a dependency of it was built
PropagatedOnlyWitness ==
  /\ dirtyFlag /\ ~noCache
  /\ pc = "done"
  /\ \E n, d \in Launched :
       /\ d \in Range(ConfigOf(n).Dependencies)
       /\ task[d].ran /\ task[d].err = ""
       /\ task[n].hit /\ task[n].pc = "done"
       /\ cache[n] = files[n]
       /\ successCount = Cardinality(Launched)

\* the tasks launched in the stage in progress
InStage == {n \in Launched : task[n].level = level}

\* C35: a task that has its result to send finds room in the channel, which
\* is still open; while the stage is open the channel holds one result for
\* each task of the stage that has finished and the wait group counts the
\* others; the channel is closed only when every task has finished, and the
\* coordinator has then one result to collect for each task launched.
StageJoinSafe ==
  /\ wg >= 0
  /\ \A n \in Launched :
       task[n].pc = "send" =>
         (pc = "launch" /\ Len(resultChan) < Capacity(levels[task[n].level]))
  /\ pc = "launch" =>
       /\ \A i, j \in DOMAIN resultChan :
            resultChan[i].packageName = resultChan[j].packageName => i = j
       /\ {resultChan[i].packageName : i \in DOMAIN resultChan}
            = {n \in InStage : task[n].pc = "done"}
       /\ wg = Cardinality({n \in InStage : task[n].pc # "done"})
  /\ pc = "collect" =>
       /\ \A n \in Launched : task[n].pc = "done"
       /\ successCount + Len(failedPackages) + Len(resultChan)
            = Cardinality(Launched)
  /\ pc \in {"stage", "summary"} =>
       successCount + Len(failedPackages) = Cardinality(Launched)

\* a task is about to send its result into a channel that holds the result
\* of another task of its stage
StageJoinWitness ==
  /\ pc = "launch"
  /\ resultChan # <<>>
  /\ \E n \in InStage : task[n].pc = "send"

\* the hash that a task holds once its cache check is over is the
\* fingerprint of the files as they were before its command, it is never
\* computed again, and it is what the save after a successful command writes
SavedHashComputedBeforeBuild ==
  /\ [](\A n \in Launched :
          task[n].pc \in {"resolve", "exec"} => task[n].newHash = files[n])
  /\ [][\A n \in Launched \cap DOMAIN task' :
          task[n].pc \notin {"check"} => task'[n].newHash = task[n].newHash]_vars
  /\ [][\A n \in Launched \cap DOMAIN task' :
          (task[n].pc = "save" /\ task'[n].pc # "save" /\ ~noCache) =>
            (n \in DOMAIN cache' /\ cache'[n] = task[n].newHash)]_vars

\* the cache check of n, with the cache in use, finds an entry that a build
\* of n wrote before its command changed the files of n
ChecksAfterSelfChange(n) ==
  /\ ChecksCache(n)
  /\ ~noCache
  /\ n \in outdated

\* C36: the fingerprint written after a successful build is the one computed
\* before the command ran, so that after a build whose command changed the
\* files of its package the next cache check of the package is a miss.
SavedHashIsPreBuild ==
  /\ SavedHashComputedBeforeBuild
  /\ [][\A n \in Launched :
          ChecksAfterSelfChange(n) =>
            (~task'[n].hit /\ task'[n].pc = "resolve")]_vars

\* the command of a build changed the files of its package and the hash
\* computed before it was written
SavedHashWitness ==
  \E n \in Launched :
    /\ task[n].ran /\ task[n].err = "" /\ task[n].pc = "done"
    /\ ~noCache
    /\ cache[n] = task[n].newHash
    /\ files[n] = Modified(cache[n])

\* in a run without --dirty the cache check that follows such a build is a
\* miss, and the package is built again
SelfChangeMissesWithoutDirty ==
  [][\A n \in Launched :
       (ChecksAfterSelfChange(n) /\ ~dirtyFlag) =>
         (~task'[n].hit /\ task'[n].pc = "resolve")]_vars

\* a run without --dirty checks the cache for a package whose last build
\* changed its own files
SelfChangeWitness ==
  \E n \in Launched :
    /\ n \in outdated /\ ~noCache /\ ~dirtyFlag /\ runs = 2
    /\ task[n].pc = "resolve" /\ ~task[n].hit

\* the records that a run with the flags of this one hands to the resolver
\* when the cache store is one in which exactly the packages of directlyDirty
\* have no entry that equals their fingerprint
SelectedWith(directlyDirty) ==
  IF dirtyFlag
  THEN LET allDirty == AllDirtyOf(directlyDirty, ReverseDepsOf(catalog), {})
       IN SelectSeq(catalog, LAMBDA cfg : cfg.Name \in allDirty)
  ELSE catalog

\* the run has fixed the packages it hands to the resolver
SelectionMade == runs > 0 /\ loaded /\ pc = "resolve"

\* C37: with --no-cache the packages that a run selects, and so the builds it
\* executes, are those that it selects on the same catalog and files with
\* any other content of the cache directory, with --dirty and without.
NoCacheSelectionIgnoresCache ==
  (SelectionMade /\ noCache) =>
    \A directlyDirty \in SUBSET (Names(catalog) \ {RootName}) :
      packages = SelectedWith(directlyDirty)

\* without --dirty the selection of a --no-cache run is the catalog, whatever
\* the cache directory holds, and every task launched reaches its command
\* lookup without a cache hit
NoCachePlainRunIgnoresCache ==
  /\ (SelectionMade /\ noCache /\ ~dirtyFlag) =>
       \A directlyDirty \in SUBSET (Names(catalog) \ {RootName}) :
         packages = SelectedWith(directlyDirty)
  /\ \A n \in Launched :
       (noCache /\ task[n].pc \notin {"check"}) => ~task[n].hit

\* a --no-cache run without --dirty is about to resolve a catalog of which
\* some package has a cache entry equal to its fingerprint and some has not
NoCachePlainRunWitness ==
  /\ SelectionMade /\ noCache /\ ~dirtyFlag
  /\ \E n, m \in Names(catalog) \ {RootName} :
       ~IsDirectlyDirty(n) /\ IsDirectlyDirty(m)

\* the named records that groupPackagesByLevel schedules
NamedOf(cfgs) == SelectSeq(cfgs, LAMBDA cfg : cfg.Name # RootName)

\* C38: groupPackagesByLevel forces a package into a stage, with its
\* warning, if and only if the dependency graph over the named packages it
\* schedules has a cycle; on packages with distinct names it does so exactly
\* when the resolver gave its cycle warning; a forced stage holds one package.
ForcedBreakIffCycle ==
  /\ \A k \in forced : k \in DOMAIN levels /\ Len(levels[k]) = 1
  /\ (forced # {}) <=> (BreakWarning \in warnings)
  /\ pc = "grouped" =>
       /\ (forced # {}) <=> ~Acyclic(NamedOf(buildOrder))
       /\ UniqueNames(packages) =>
            ((BreakWarning \in warnings) <=> (CycleWarning \in warnings))

\* the same without the condition on the names
ForcedBreakIffCycleWarning ==
  pc = "grouped" =>
    ((BreakWarning \in warnings) <=> (CycleWarning \in warnings))

\* the scheduler has broken a cycle that does not hold every package, after
\* the resolver's warning
ForcedBreakWitness ==
  /\ pc = "grouped"
  /\ UniqueNames(packages)
  /\ forced # {}
  /\ Len(levels) > Cardinality(forced)
  /\ CycleWarning \in warnings

\* the warnings of a missing dependency given so far name no package of the
\* catalog, and the graph of the resolver has an edge for every declared
\* dependency that does
NoWarningForCatalogDependency ==
  /\ \A w \in warnings :
       w.kind = "missing" => w.dep \notin Names(catalog)
  /\ pc \in {"queue", "kahn"} =>
       \A i \in DOMAIN packages :
         \A d \in Range(packages[i].Dependencies) \cap Names(catalog) :
           d \in Range(graph[packages[i].Name])

\* C39: a warning of a missing dependency is given only for a name that no
\* package of the loaded catalog has; a run with --dirty gives none, and
\* drops no edge, for a dependency that is in the catalog and is not dirty.
MissingWarningOnlyIfAbsent == loaded => NoWarningForCatalogDependency

\* in a run without --dirty it is so
MissingWarningOnlyIfAbsentWithoutDirty ==
  (loaded /\ ~dirtyFlag) => NoWarningForCatalogDependency

\* a run without --dirty has built the graph of a catalog in which one
\* declared dependency names a package and another does not
MissingWarningWitness ==
  /\ loaded /\ ~dirtyFlag /\ pc = "queue"
  /\ \E i \in DOMAIN packages :
       /\ MissingDeps(packages[i]) # {}
       /\ Range(packages[i].Dependencies) \cap Names(catalog) # {}

====
